---- MODULE Spec2Model ----
(***************************************************************************)
(* A model of the dav-server request engine: the dispatcher                *)
(* (davhandler/mod.rs), the conditional evaluator (conditional.rs), the    *)
(* MKCOL handler (davhandler/handle_mkcol.rs, handle_mkcol.rs), the verb   *)
(* table (util.rs) and the LocalFs backend (fs/localfs.rs).                *)
(*                                                                         *)
(* errors.rs, davpath.rs, the lock system and the handlers other than      *)
(* MKCOL are modelled from their documented contract.                      *)
(***************************************************************************)
EXTENDS Integers, Sequences, FiniteSets, TLC

VARIABLES
    cfg,      \* the DavHandler configuration (immutable after build)
    fs,       \* the file-system backend: resource path -> [kind, etag]
    locks,    \* the lock-system backend: the set of active locks
    phase,    \* "idle": waiting for a request; "done": a response is ready
    req,      \* the request being answered (NoReq when idle)
    resp,     \* the response produced for req (NoResp when idle)
    err,      \* the DavError handle2 returned for req (NoErr if it returned Ok)
    run,      \* what the dispatcher and the handler did for req
    created,  \* history: collections a MKCOL answered 201 for, not removed since
    eval,     \* the result of an evaluator of conditional.rs called on its own
    inflight, \* the calls of handle_with / handle_stream_with in progress
    sent,     \* a response Body (body.rs) and what its consumer was given
    readdir,  \* a LocalFs directory stream (fs/localfs.rs) and what it yielded
    disk,     \* a LocalFs (fs/localfs.rs): its directory tree and the calls made on it
    file      \* a LocalFsFile (fs/localfs.rs): the open file and what was read from it

\* The variables of one request at a time, and the others.
core == <<cfg, fs, locks, phase, req, resp, err, run, created, eval>>
io == <<sent, readdir, disk, file>>
aux == <<inflight, io>>
vars == <<core, aux>>

-----------------------------------------------------------------------------
(* Bounds of the model.                                                    *)

\* The lock system holds at most this many locks at a time.
MaxLocks == 1
\* A request body arrives in at most this many stream items.
MaxChunks == 2

-----------------------------------------------------------------------------
(* util.rs: the DavMethod bit flags and the method table.                  *)

HEAD == 1
GET == 2
PUT == 4
PATCH == 8
OPTIONS == 16
PROPFIND == 32
PROPPATCH == 64
MKCOL == 128
COPY == 256
MOVE == 512
DELETE == 1024
LOCK == 2048
UNLOCK == 4096

\* Every single-verb flag.
AllVerbs ==
    {HEAD, GET, PUT, PATCH, OPTIONS, PROPFIND, PROPPATCH, MKCOL, COPY, MOVE,
     DELETE, LOCK, UNLOCK}

RECURSIVE SumBits(_)
SumBits(S) ==
    IF S = {} THEN 0
    ELSE LET b == CHOOSE x \in S : TRUE IN b + SumBits(S \ {b})

HTTP_RO == SumBits({HEAD, GET, OPTIONS})
WEBDAV_RO == SumBits({HEAD, GET, OPTIONS, PROPFIND})
WEBDAV_BODY == SumBits({PUT, PATCH, PROPFIND, PROPPATCH, LOCK})
\* DavMethod::all() / DavMethodSet::all()
WEBDAV_RW == SumBits(AllVerbs)

\* bitflags contains() for a single-verb flag m: (self & m) == m.
Contains(set, m) == (set \div m) % 2 = 1

\* The DavError values the dispatcher and the handlers construct.
NoErr == [kind |-> "None", status |-> 0, fse |-> "none"]
ErrStatus(s) == [kind |-> "Status", status |-> s, fse |-> "none"]
ErrStatusClose(s) == [kind |-> "StatusClose", status |-> s, fse |-> "none"]
ErrUnknownDavMethod == [kind |-> "UnknownDavMethod", status |-> 0, fse |-> "none"]
ErrInvalidPath == [kind |-> "InvalidPath", status |-> 0, fse |-> "none"]
ErrIoError == [kind |-> "IoError", status |-> 0, fse |-> "none"]
ErrFsError(e) == [kind |-> "FsError", status |-> 0, fse |-> e]

\* The method names a request may carry: the thirteen, and names that are not
\* verbs (a lower-case spelling, an unrelated extension method, a prefix).
MethodNames ==
    {"HEAD", "GET", "PUT", "PATCH", "OPTIONS", "PROPFIND", "PROPPATCH", "MKCOL",
     "COPY", "MOVE", "DELETE", "LOCK", "UNLOCK", "mkcol", "BREW", "PROP"}

\* A variant of dav_method that also accepts the lower-case spelling of
\* MKCOL.
dav_method_nocase(m) ==
    CASE m = "HEAD" -> [ok |-> TRUE, verb |-> HEAD, err |-> NoErr]
      [] m = "GET" -> [ok |-> TRUE, verb |-> GET, err |-> NoErr]
      [] m = "PUT" -> [ok |-> TRUE, verb |-> PUT, err |-> NoErr]
      [] m = "PATCH" -> [ok |-> TRUE, verb |-> PATCH, err |-> NoErr]
      [] m = "DELETE" -> [ok |-> TRUE, verb |-> DELETE, err |-> NoErr]
      [] m = "OPTIONS" -> [ok |-> TRUE, verb |-> OPTIONS, err |-> NoErr]
      [] m = "PROPFIND" -> [ok |-> TRUE, verb |-> PROPFIND, err |-> NoErr]
      [] m = "PROPPATCH" -> [ok |-> TRUE, verb |-> PROPPATCH, err |-> NoErr]
      [] m \in {"MKCOL", "mkcol"} -> [ok |-> TRUE, verb |-> MKCOL, err |-> NoErr]
      [] m = "COPY" -> [ok |-> TRUE, verb |-> COPY, err |-> NoErr]
      [] m = "MOVE" -> [ok |-> TRUE, verb |-> MOVE, err |-> NoErr]
      [] m = "LOCK" -> [ok |-> TRUE, verb |-> LOCK, err |-> NoErr]
      [] m = "UNLOCK" -> [ok |-> TRUE, verb |-> UNLOCK, err |-> NoErr]
      [] OTHER -> [ok |-> FALSE, verb |-> 0, err |-> ErrUnknownDavMethod]

\* dav_method: http::Method -> DavResult<DavMethod>.  The first six are
\* matched against the http crate's constants, the rest by name.
dav_method(m) ==
    CASE m = "HEAD" -> [ok |-> TRUE, verb |-> HEAD, err |-> NoErr]
      [] m = "GET" -> [ok |-> TRUE, verb |-> GET, err |-> NoErr]
      [] m = "PUT" -> [ok |-> TRUE, verb |-> PUT, err |-> NoErr]
      [] m = "PATCH" -> [ok |-> TRUE, verb |-> PATCH, err |-> NoErr]
      [] m = "DELETE" -> [ok |-> TRUE, verb |-> DELETE, err |-> NoErr]
      [] m = "OPTIONS" -> [ok |-> TRUE, verb |-> OPTIONS, err |-> NoErr]
      [] m = "PROPFIND" -> [ok |-> TRUE, verb |-> PROPFIND, err |-> NoErr]
      [] m = "PROPPATCH" -> [ok |-> TRUE, verb |-> PROPPATCH, err |-> NoErr]
      [] m = "MKCOL" -> [ok |-> TRUE, verb |-> MKCOL, err |-> NoErr]
      [] m = "COPY" -> [ok |-> TRUE, verb |-> COPY, err |-> NoErr]
      [] m = "MOVE" -> [ok |-> TRUE, verb |-> MOVE, err |-> NoErr]
      [] m = "LOCK" -> [ok |-> TRUE, verb |-> LOCK, err |-> NoErr]
      [] m = "UNLOCK" -> [ok |-> TRUE, verb |-> UNLOCK, err |-> NoErr]
      [] OTHER -> [ok |-> FALSE, verb |-> 0, err |-> ErrUnknownDavMethod]

-----------------------------------------------------------------------------
(* errors.rs (modelled from the documented error taxonomy).                *)

fserror_to_status(e) ==
    CASE e = "NotFound" -> 404
      [] e = "Exists" -> 405
      [] e = "Forbidden" -> 403
      [] e = "IsRemote" -> 502
      [] e = "NotImplemented" -> 501
      [] OTHER -> 500

\* DavError::statuscode
statuscode(e) ==
    CASE e.kind = "Status" -> e.status
      [] e.kind = "StatusClose" -> e.status
      [] e.kind = "InvalidPath" -> 400
      [] e.kind = "UnknownDavMethod" -> 501
      [] e.kind = "FsError" -> fserror_to_status(e.fse)
      [] OTHER -> 500

\* DavError::must_close: a plain status and the benign file-system errors
\* keep the connection, everything else closes it.
must_close(e) ==
    ~ (\/ e.kind = "Status"
       \/ (e.kind = "FsError" /\ e.fse \in {"NotFound", "Forbidden", "Exists"}))

-----------------------------------------------------------------------------
(* davpath.rs (modelled from the documented path model).  A URI is its     *)
(* list of path segments, whether it ends in "/", and whether it is        *)
(* malformed; a DavPath is the segments below the prefix.                  *)

Root == <<>>
DavPaths == {Root, <<"a">>, <<"a", "b">>}

IsPrefixOf(p, q) == Len(p) <= Len(q) /\ SubSeq(q, 1, Len(p)) = p
Parent(p) == IF p = Root THEN Root ELSE SubSeq(p, 1, Len(p) - 1)

Uri(segs, slash) == [segs |-> segs, slash |-> slash, malformed |-> FALSE, star |-> FALSE]
BadUri == [segs |-> <<>>, slash |-> FALSE, malformed |-> TRUE, star |-> FALSE]
\* The request target `*`.
StarUri == [segs |-> <<>>, slash |-> FALSE, malformed |-> FALSE, star |-> TRUE]

\* DavPath::from_uri_and_prefix: fails on a malformed path and on a path
\* that does not lie under the prefix.
from_uri_and_prefix(uri, prefix) ==
    IF uri.star
    THEN [ok |-> TRUE,
          path |-> [segs |-> Root, slash |-> FALSE, prefix |-> prefix, star |-> TRUE],
          err |-> NoErr]
    ELSE IF uri.malformed \/ ~ IsPrefixOf(prefix, uri.segs)
    THEN [ok |-> FALSE,
          path |-> [segs |-> Root, slash |-> FALSE, prefix |-> prefix, star |-> FALSE],
          err |-> ErrInvalidPath]
    ELSE [ok |-> TRUE,
          path |-> [segs |-> SubSeq(uri.segs, Len(prefix) + 1, Len(uri.segs)),
                    slash |-> uri.slash, prefix |-> prefix, star |-> FALSE],
          err |-> NoErr]

\* DavPath::is_star
is_star(path) == path.star

RECURSIVE JoinSegs(_)
JoinSegs(s) == IF s = <<>> THEN "" ELSE "/" \o Head(s) \o JoinSegs(Tail(s))

\* DavPath::is_collection, add_slash, with_prefix().as_url_string()
is_collection(path) == path.slash
add_slash(path) == [path EXCEPT !.slash = TRUE]
with_prefix_url(path) ==
    LET s == JoinSegs(path.prefix \o path.segs)
    IN IF path.slash \/ s = "" THEN s \o "/" ELSE s

\* DavPath::as_url_string: the path below the prefix; "/" for the prefix
\* itself, "*" for the star path.
as_url_string(path) ==
    IF path.star THEN "*"
    ELSE IF path.segs = Root THEN "/"
    ELSE JoinSegs(path.segs) \o (IF path.slash THEN "/" ELSE "")

-----------------------------------------------------------------------------
(* fs/localfs.rs: the file-system backend.  A resource is absent, a        *)
(* directory or a file; its entity tag is derived from its modification    *)
(* time (DavMetaData::etag), so the two are kept together.                 *)

NanosPerSec == 1000000000

ETags == {"e1", "e2"}
\* The modification time (nanoseconds since the epoch) behind each tag.
ModifiedOf(etag) == IF etag = "e1" THEN NanosPerSec + 500000000 ELSE 2 * NanosPerSec

Absent == [kind |-> "none", etag |-> "e1"]
NewDir == [kind |-> "dir", etag |-> "e1"]
NewFile == [kind |-> "file", etag |-> "e1"]
\* A write changes the modification time, hence the tag.
Touch(r) == [r EXCEPT !.etag = IF r.etag = "e1" THEN "e2" ELSE "e1"]

EmptyFs == [p \in DavPaths |-> IF p = Root THEN NewDir ELSE Absent]

NoMeta ==
    [ok |-> FALSE, isdir |-> FALSE, has_etag |-> FALSE, etag |-> "e1",
     has_modified |-> FALSE, modified |-> 0]

\* LocalFs::metadata: NotFound for a missing path, else the metadata.
metadata(f, path) ==
    IF path.star \/ f[path.segs].kind = "none" THEN NoMeta
    ELSE [ok |-> TRUE, isdir |-> f[path.segs].kind = "dir",
          has_etag |-> TRUE, etag |-> f[path.segs].etag,
          has_modified |-> TRUE, modified |-> ModifiedOf(f[path.segs].etag)]

\* LocalFs::create_dir: DirBuilder::create (mkdir(2)): EEXIST when the path
\* exists, ENOENT when the parent is missing, ENOTDIR when the parent is a
\* file; the io::Error is converted to FsError.
create_dir(f, path) ==
    LET p == path.segs IN
    IF f[p].kind # "none" THEN [ok |-> FALSE, fse |-> "Exists", fs |-> f]
    ELSE IF f[Parent(p)].kind = "none" THEN [ok |-> FALSE, fse |-> "NotFound", fs |-> f]
    ELSE IF f[Parent(p)].kind = "file" THEN [ok |-> FALSE, fse |-> "GeneralFailure", fs |-> f]
    ELSE [ok |-> TRUE, fse |-> "none", fs |-> [f EXCEPT ![p] = NewDir]]

-----------------------------------------------------------------------------
(* The lock system (modelled from the documented contract of check, lock   *)
(* and unlock).                                                            *)

NoPrincipal == "-"
TokenOf(i) == "opaquelocktoken:" \o ToString(i)
Tokens == {TokenOf(i) : i \in 1..(MaxLocks + 1)}

\* A lock at l.path covers path when it is on path itself, or on an
\* ancestor with depth infinity.
Covers(l, p) == l.path = p \/ (l.deep /\ IsPrefixOf(l.path, p))

\* A submitted token covers a lock if it matches the lock's token (and the
\* principal, unless principals are ignored).
Holds(l, principal, ignore_principal, tokens) ==
    l.token \in tokens /\ (ignore_principal \/ principal = l.principal)

\* DavLockSystem::check: may the caller, with these tokens, modify path (and
\* its subtree when deep)?  TRUE stands for Ok.
ls_check(ls, path, principal, ignore_principal, deep, tokens) ==
    LET L == {l \in ls : Covers(l, path.segs) \/ (deep /\ IsPrefixOf(path.segs, l.path))}
    IN \/ L = {}
       \/ /\ \A l \in L : ~ l.shared => Holds(l, principal, ignore_principal, tokens)
          /\ \E l \in L : Holds(l, principal, ignore_principal, tokens)

\* Two locks conflict when one covers the other's resource and they are not
\* both shared (I1-I3).
Conflicts(l, path, shared, deep) ==
    /\ Covers(l, path) \/ (deep /\ IsPrefixOf(path, l.path))
    /\ ~ (l.shared /\ shared)

\* A new lock gets a token no active lock carries.
FreshToken(ls) ==
    LET used == {l.token : l \in ls}
        i == CHOOSE k \in 1..(MaxLocks + 1) :
                 /\ TokenOf(k) \notin used
                 /\ \A j \in 1..(k - 1) : TokenOf(j) \in used
    IN TokenOf(i)

-----------------------------------------------------------------------------
(* conditional.rs: the RFC 7232 If-* headers and the RFC 4918 If header.   *)

\* Header values.  An ETagList is `*` or a set of tags; a date header is a
\* time in whole seconds; the If header is a sequence of lists, each with an
\* optional resource tag and a sequence of conditions.
NoTagList == [present |-> FALSE, star |-> FALSE, tags |-> {}]
Star == [present |-> TRUE, star |-> TRUE, tags |-> {}]
TagList(S) == [present |-> TRUE, star |-> FALSE, tags |-> S]
NoDate == [present |-> FALSE, time |-> 0]
Date(secs) == [present |-> TRUE, time |-> secs * NanosPerSec]
NoIf == [present |-> FALSE, lists |-> <<>>]
NoResourceTag == [present |-> FALSE, uri |-> BadUri]
ResourceTag(uri) == [present |-> TRUE, uri |-> uri]
StateToken(t) == [not |-> FALSE, kind |-> "token", val |-> t]
IfETag(e) == [not |-> FALSE, kind |-> "etag", val |-> e]
Not(c) == [c EXCEPT !.not = TRUE]
IfList(tag, conds) == [tag |-> tag, conds |-> conds]
IfHdr(lists) == [present |-> TRUE, lists |-> lists]

\* A variant that keeps the nanoseconds.
round_time_exact(tm) == tm

\* round_time: drop the sub-second part of a time at or after the epoch.
round_time(tm) == IF tm >= 0 THEN (tm \div NanosPerSec) * NanosPerSec ELSE tm

\* etaglist_match(tags, exists, tag), the optional tag as (hastag, tag).
etaglist_match(tags, exists, hastag, tag) ==
    IF tags.star THEN exists
    ELSE hastag /\ \E x \in tags.tags : x = tag

\* An If-Range header is a date or an entity tag.
IfRangeDate(secs) == [kind |-> "date", time |-> secs * NanosPerSec, etag |-> "e1"]
IfRangeETag(e) == [kind |-> "etag", time |-> 0, etag |-> e]
\* The arguments of ifrange_match: the header, Option<&ETag>, Option<SystemTime>.
RangeArgs(hdr, has_tag, tag, has_date, date) ==
    [hdr |-> hdr, has_tag |-> has_tag, tag |-> tag, has_date |-> has_date, date |-> date]
NoRange == RangeArgs(IfRangeETag("e1"), FALSE, "e1", FALSE, 0)

\* ifrange_match(hdr, tag, date)
ifrange_match(a) ==
    IF a.hdr.kind = "date" /\ ~ a.has_tag /\ a.has_date
    THEN round_time(a.date) = round_time(a.hdr.time)
    ELSE IF a.hdr.kind = "etag" /\ a.has_tag /\ ~ a.has_date
    THEN a.hdr.etag = a.tag
    ELSE FALSE

IsGetOrHead(method) == method = "GET" \/ method = "HEAD"

\* A variant that lets If-Unmodified-Since pass when the modification time
\* is not available.
HttpIfMatchFirst_lenient(r, meta) ==
    IF r.if_match.present
    THEN IF ~ etaglist_match(r.if_match, meta.ok, meta.has_etag, meta.etag) THEN 412 ELSE 0
    ELSE IF r.if_unmodified_since.present /\ meta.has_modified
            /\ round_time(meta.modified) > round_time(r.if_unmodified_since.time)
    THEN 412
    ELSE 0

\* The first half of http_if_match: If-Match, else If-Unmodified-Since.
\* 0 stands for "no status".
HttpIfMatchFirst(r, meta) ==
    IF r.if_match.present
    THEN IF ~ etaglist_match(r.if_match, meta.ok, meta.has_etag, meta.etag) THEN 412 ELSE 0
    ELSE IF r.if_unmodified_since.present
    THEN IF ~ meta.has_modified THEN 412
         ELSE IF round_time(meta.modified) > round_time(r.if_unmodified_since.time)
              THEN 412 ELSE 0
    ELSE 0

\* A variant that applies If-Modified-Since to every verb.
HttpIfMatchSecond_any_verb(r, meta) ==
    IF r.if_none_match.present
    THEN IF etaglist_match(r.if_none_match, meta.ok, meta.has_etag, meta.etag)
         THEN IF IsGetOrHead(r.method) THEN 304 ELSE 412
         ELSE 0
    ELSE IF r.if_modified_since.present /\ meta.has_modified
            /\ round_time(meta.modified) <= round_time(r.if_modified_since.time)
    THEN 304
    ELSE 0

\* The second half: If-None-Match, else If-Modified-Since.
HttpIfMatchSecond(r, meta) ==
    IF r.if_none_match.present
    THEN IF etaglist_match(r.if_none_match, meta.ok, meta.has_etag, meta.etag)
         THEN IF IsGetOrHead(r.method) THEN 304 ELSE 412
         ELSE 0
    ELSE IF r.if_modified_since.present
    THEN IF IsGetOrHead(r.method) /\ meta.has_modified
            /\ round_time(meta.modified) <= round_time(r.if_modified_since.time)
         THEN 304 ELSE 0
    ELSE 0

\* A variant of http_if_match that lets a 304 of the second half win over a
\* 412 of the first.
http_if_match_not_modified_first(r, meta) ==
    IF HttpIfMatchSecond(r, meta) = 304 THEN 304
    ELSE IF HttpIfMatchFirst(r, meta) # 0 THEN HttpIfMatchFirst(r, meta)
    ELSE HttpIfMatchSecond(r, meta)

\* http_if_match(req, meta): Option<StatusCode>, 0 for None.
http_if_match(r, meta) ==
    IF HttpIfMatchFirst(r, meta) # 0 THEN HttpIfMatchFirst(r, meta)
    ELSE HttpIfMatchSecond(r, meta)

\* A variant that leaves out the tokens of negated conditions.
RECURSIVE ListTokens_plain(_)
ListTokens_plain(conds) ==
    IF conds = <<>> THEN <<>>
    ELSE (IF Head(conds).kind = "token" /\ ~ Head(conds).not THEN <<Head(conds).val>> ELSE <<>>)
         \o ListTokens_plain(Tail(conds))

\* The state tokens of one list, in order.
RECURSIVE ListTokens(_)
ListTokens(conds) ==
    IF conds = <<>> THEN <<>>
    ELSE (IF Head(conds).kind = "token" THEN <<Head(conds).val>> ELSE <<>>)
         \o ListTokens(Tail(conds))

IsDavNamespace(s) == s \in {"DAV:no-lock"}

\* A variant that gives a DAV: token to the lock system like any other.
cond_ok_any_namespace(cond, p, valid, f, ls, has_ls) ==
    IF cond.kind = "token"
    THEN valid /\ has_ls /\ ls_check(ls, p, NoPrincipal, TRUE, FALSE, {cond.val})
    ELSE valid /\ metadata(f, p).ok /\ metadata(f, p).has_etag
               /\ cond.val = metadata(f, p).etag

\* The truth value of one condition of a list about resource p.
cond_ok(cond, p, valid, f, ls, has_ls) ==
    IF cond.kind = "token"
    THEN IF ~ valid \/ IsDavNamespace(cond.val) THEN FALSE
         ELSE IF has_ls THEN ls_check(ls, p, NoPrincipal, TRUE, FALSE, {cond.val})
         ELSE FALSE
    ELSE IF ~ valid THEN FALSE
         ELSE metadata(f, p).ok /\ metadata(f, p).has_etag /\ cond.val = metadata(f, p).etag

\* A variant of the loop in which one condition with the wanted value makes
\* the list true.
RECURSIVE conds_loop_any(_, _, _, _, _, _, _)
conds_loop_any(conds, list_ok, p, valid, f, ls, has_ls) ==
    IF conds = <<>> THEN list_ok
    ELSE conds_loop_any(Tail(conds),
                        list_ok \/ cond_ok(Head(conds), p, valid, f, ls, has_ls) # Head(conds).not,
                        p, valid, f, ls, has_ls)

\* The loop over the conditions of a list: list_ok starts false, a condition
\* whose value equals its Not flag ends the loop with false, any other sets
\* it true.
RECURSIVE conds_loop(_, _, _, _, _, _, _)
conds_loop(conds, list_ok, p, valid, f, ls, has_ls) ==
    IF conds = <<>> THEN list_ok
    ELSE IF cond_ok(Head(conds), p, valid, f, ls, has_ls) = Head(conds).not THEN FALSE
    ELSE conds_loop(Tail(conds), TRUE, p, valid, f, ls, has_ls)

\* The resource a list is about: its tag parsed under the path's prefix, or
\* the request path.
list_resource(iflist, path) ==
    IF iflist.tag.present
    THEN LET r == from_uri_and_prefix(iflist.tag.uri, path.prefix)
         IN IF r.ok THEN [p |-> r.path, valid |-> TRUE] ELSE [p |-> path, valid |-> FALSE]
    ELSE [p |-> path, valid |-> TRUE]

\* A variant of the loop in which the last list decides.
RECURSIVE lists_loop_last(_, _, _, _, _, _, _)
lists_loop_last(lists, any_list_ok, tokens, path, f, ls, has_ls) ==
    IF lists = <<>> THEN [ok |-> any_list_ok, tokens |-> tokens]
    ELSE LET iflist == Head(lists)
             res == list_resource(iflist, path)
         IN lists_loop_last(Tail(lists),
                            conds_loop(iflist.conds, FALSE, res.p, res.valid, f, ls, has_ls),
                            tokens \o ListTokens(iflist.conds), path, f, ls, has_ls)

\* The loop over the lists of the If header.
RECURSIVE lists_loop(_, _, _, _, _, _, _)
lists_loop(lists, any_list_ok, tokens, path, f, ls, has_ls) ==
    IF lists = <<>> THEN [ok |-> any_list_ok, tokens |-> tokens]
    ELSE LET iflist == Head(lists)
             toks == tokens \o ListTokens(iflist.conds)
             res == list_resource(iflist, path)
         IN IF any_list_ok
            THEN lists_loop(Tail(lists), any_list_ok, toks, path, f, ls, has_ls)
            ELSE lists_loop(Tail(lists),
                            conds_loop(iflist.conds, FALSE, res.p, res.valid, f, ls, has_ls),
                            toks, path, f, ls, has_ls)

\* dav_if_match(req, fs, ls, path): (bool, Vec<String>)
dav_if_match(r, f, ls, has_ls, path) ==
    IF ~ r.if_hdr.present THEN [ok |-> TRUE, tokens |-> <<>>]
    ELSE lists_loop(r.if_hdr.lists, FALSE, <<>>, path, f, ls, has_ls)

\* A variant of if_match that evaluates the If-* headers first, in the order
\* of if_match_get_tokens.
if_match_http_first(r, meta, f, ls, has_ls, path) ==
    IF http_if_match(r, meta) # 0 THEN http_if_match(r, meta)
    ELSE IF ~ dav_if_match(r, f, ls, has_ls, path).ok THEN 412
    ELSE 0

\* if_match: the If header first, then the If-* headers.  0 for None.
if_match(r, meta, f, ls, has_ls, path) ==
    IF ~ dav_if_match(r, f, ls, has_ls, path).ok THEN 412
    ELSE http_if_match(r, meta)

\* A variant of if_match_get_tokens that evaluates the If header first, in
\* the order of if_match.
if_match_get_tokens_dav_first(r, meta, f, ls, has_ls, path) ==
    IF ~ dav_if_match(r, f, ls, has_ls, path).ok
    THEN [ok |-> FALSE, status |-> 412, tokens |-> <<>>]
    ELSE IF http_if_match(r, meta) # 0
    THEN [ok |-> FALSE, status |-> http_if_match(r, meta), tokens |-> <<>>]
    ELSE [ok |-> TRUE, status |-> 0, tokens |-> dav_if_match(r, f, ls, has_ls, path).tokens]

\* if_match_get_tokens: the If-* headers first, then the If header.
if_match_get_tokens(r, meta, f, ls, has_ls, path) ==
    IF http_if_match(r, meta) # 0
    THEN [ok |-> FALSE, status |-> http_if_match(r, meta), tokens |-> <<>>]
    ELSE IF dav_if_match(r, f, ls, has_ls, path).ok
    THEN [ok |-> TRUE, status |-> 0, tokens |-> dav_if_match(r, f, ls, has_ls, path).tokens]
    ELSE [ok |-> FALSE, status |-> 412, tokens |-> <<>>]

-----------------------------------------------------------------------------
(* Requests, responses and what a handler returns.                         *)

\* One item of the request body stream: a chunk of len bytes, or an error.
Chunk(n) == [len |-> n, failed |-> FALSE]
StreamError == [len |-> 0, failed |-> TRUE]

Request(method, uri, body) ==
    [method |-> method, uri |-> uri, body |-> body, user_agent |-> "",
     if_match |-> NoTagList, if_none_match |-> NoTagList,
     if_unmodified_since |-> NoDate, if_modified_since |-> NoDate,
     if_hdr |-> NoIf,
     lock_shared |-> FALSE, lock_deep |-> FALSE, lock_token |-> ""]

NoReq == Request("", BadUri, <<>>)

Header(name, value) == <<name, value>>

\* What a handler returns: a DavError, or (err = NoErr) a response status
\* with headers and a body; the backends as the handler leaves them; the
\* backend calls it made, in order; panic when an unwrap() failed.
Outcome(e, status, headers, body, f, ls, calls) ==
    [panic |-> FALSE, err |-> e, status |-> status, headers |-> headers,
     body |-> body, fs |-> f, locks |-> ls, calls |-> calls, allow |-> <<>>]
Failure(e, f, ls, calls) == Outcome(e, 0, {}, "empty", f, ls, calls)
Panic(f, ls) == [Failure(NoErr, f, ls, <<>>) EXCEPT !.panic = TRUE]

\* DavHandler::path: the request path, unwrapped.
path(c, r) == from_uri_and_prefix(r.uri, c.prefix)

RECURSIVE SeqToSet(_)
SeqToSet(s) == IF s = <<>> THEN {} ELSE {Head(s)} \cup SeqToSet(Tail(s))

-----------------------------------------------------------------------------
(* davhandler/handle_mkcol.rs                                              *)

\* The response of a successful MKCOL.
mkcol_created(pa, f, ls, calls) ==
    Outcome(NoErr, 201,
            IF is_collection(pa)
            THEN {Header("content-location", with_prefix_url(add_slash(pa)))}
            ELSE {},
            "empty", f, ls, calls)

\* A variant of the create_dir step with the two mapped errors exchanged.
mkcol_create_swapped(pa, f, ls, calls) ==
    LET cd == create_dir(f, pa)
        cs == Append(calls, "create_dir")
    IN IF cd.ok THEN mkcol_created(pa, cd.fs, ls, cs)
       ELSE IF cd.fse = "Exists" THEN Failure(ErrStatus(409), f, ls, cs)
       ELSE IF cd.fse = "NotFound" THEN Failure(ErrStatus(405), f, ls, cs)
       ELSE Failure(ErrFsError(cd.fse), f, ls, cs)

\* The create_dir step of handle_mkcol and the mapping of its result.
mkcol_create(pa, f, ls, calls) ==
    LET cd == create_dir(f, pa)
        cs == Append(calls, "create_dir")
    IN IF cd.ok THEN mkcol_created(pa, cd.fs, ls, cs)
       ELSE IF cd.fse = "Exists" THEN Failure(ErrStatus(405), f, ls, cs)
       ELSE IF cd.fse = "NotFound" THEN Failure(ErrStatus(409), f, ls, cs)
       ELSE Failure(ErrFsError(cd.fse), f, ls, cs)

\* A variant of the lock check that consults the lock system only when the
\* request submitted a token.
mkcol_locked_if_tokens(c, ls, pa, tokens) ==
    c.has_ls /\ tokens # <<>>
    /\ ~ ls_check(ls, pa, c.principal, FALSE, FALSE, SeqToSet(tokens))

\* The lock check of handle_mkcol: with a lock system, the harvested tokens
\* must satisfy check(path, principal, false, false, tokens).
mkcol_locked(c, ls, pa, tokens) ==
    c.has_ls /\ ~ ls_check(ls, pa, c.principal, FALSE, FALSE, SeqToSet(tokens))

\* A variant of handle_mkcol that makes the lock check, with the tokens of
\* the If header, before it reports a failed conditional.
handle_mkcol_lock_first(c, f, ls, r) ==
    LET p == path(c, r)
        pa == p.path
        meta == metadata(f, pa)
        res == if_match_get_tokens(r, meta, f, ls, c.has_ls, pa)
        toks == dav_if_match(r, f, ls, c.has_ls, pa).tokens
    IN IF ~ p.ok THEN Panic(f, ls)
       ELSE IF mkcol_locked(c, ls, pa, toks)
       THEN Failure(ErrStatus(423), f, ls, <<"metadata", "if_match", "check">>)
       ELSE IF ~ res.ok
       THEN Failure(ErrStatus(res.status), f, ls, <<"metadata", "if_match", "check">>)
       ELSE mkcol_create(pa, f, ls,
                         IF c.has_ls THEN <<"metadata", "if_match", "check">>
                         ELSE <<"metadata", "if_match">>)

handle_mkcol(c, f, ls, r) ==
    LET p == path(c, r)
        pa == p.path
        meta == metadata(f, pa)
        res == if_match_get_tokens(r, meta, f, ls, c.has_ls, pa)
    IN IF ~ p.ok THEN Panic(f, ls)
       ELSE IF ~ res.ok
       THEN Failure(ErrStatus(res.status), f, ls, <<"metadata", "if_match">>)
       ELSE IF mkcol_locked(c, ls, pa, res.tokens)
       THEN Failure(ErrStatus(423), f, ls, <<"metadata", "if_match", "check">>)
       ELSE mkcol_create(pa, f, ls,
                         IF c.has_ls THEN <<"metadata", "if_match", "check">>
                         ELSE <<"metadata", "if_match">>)

-----------------------------------------------------------------------------
(* The other handlers, modelled from their documented behaviour, as far as *)
(* the store and the locks are concerned.                                  *)

\* GET and HEAD: a file is served after the combined evaluator if_match
\* passed; a directory (no auto-index) is refused.
handle_get(c, f, ls, r) ==
    LET p == path(c, r)
        pa == p.path
        meta == metadata(f, pa)
        s == if_match(r, meta, f, ls, c.has_ls, pa)
    IN IF ~ p.ok THEN Panic(f, ls)
       ELSE IF ~ meta.ok THEN Failure(ErrFsError("NotFound"), f, ls, <<"metadata">>)
       ELSE IF meta.isdir THEN Failure(ErrStatus(405), f, ls, <<"metadata">>)
       ELSE IF s # 0 THEN Failure(ErrStatus(s), f, ls, <<"metadata", "if_match">>)
       ELSE Outcome(NoErr, 200, {Header("etag", meta.etag)},
                    IF r.method = "HEAD" THEN "empty" ELSE "file",
                    f, ls, <<"metadata", "if_match", "open">>)

\* PUT and PATCH: conditionals, then the lock check, then the write.
handle_put(c, f, ls, r) ==
    LET p == path(c, r)
        pa == p.path
        meta == metadata(f, pa)
        res == if_match_get_tokens(r, meta, f, ls, c.has_ls, pa)
    IN IF ~ p.ok THEN Panic(f, ls)
       ELSE IF ~ res.ok
       THEN Failure(ErrStatus(res.status), f, ls, <<"metadata", "if_match">>)
       ELSE IF meta.isdir
       THEN Failure(ErrStatus(405), f, ls, <<"metadata", "if_match">>)
       ELSE IF c.has_ls /\ ~ ls_check(ls, pa, c.principal, FALSE, FALSE, SeqToSet(res.tokens))
       THEN Failure(ErrStatus(423), f, ls, <<"metadata", "if_match", "check">>)
       ELSE IF f[Parent(pa.segs)].kind # "dir"
       THEN Failure(ErrStatus(409), f, ls, <<"metadata", "if_match", "check", "open">>)
       ELSE Outcome(NoErr, IF meta.ok THEN 204 ELSE 201, {}, "empty",
                    [f EXCEPT ![pa.segs] = IF meta.ok THEN Touch(@) ELSE NewFile],
                    ls, <<"metadata", "if_match", "check", "open">>)

\* DELETE: conditionals, the lock check over the subtree, then the removal
\* of the resource and everything below it.
handle_delete(c, f, ls, r) ==
    LET p == path(c, r)
        pa == p.path
        meta == metadata(f, pa)
        res == if_match_get_tokens(r, meta, f, ls, c.has_ls, pa)
    IN IF ~ p.ok THEN Panic(f, ls)
       ELSE IF ~ meta.ok THEN Failure(ErrFsError("NotFound"), f, ls, <<"metadata">>)
       ELSE IF ~ res.ok
       THEN Failure(ErrStatus(res.status), f, ls, <<"metadata", "if_match">>)
       ELSE IF c.has_ls /\ ~ ls_check(ls, pa, c.principal, FALSE, TRUE, SeqToSet(res.tokens))
       THEN Failure(ErrStatus(423), f, ls, <<"metadata", "if_match", "check">>)
       ELSE IF pa.segs = Root
       THEN Failure(ErrFsError("Forbidden"), f, ls, <<"metadata", "if_match", "check">>)
       ELSE Outcome(NoErr, 204, {}, "empty",
                    [q \in DavPaths |-> IF IsPrefixOf(pa.segs, q) THEN Absent ELSE f[q]],
                    ls, <<"metadata", "if_match", "check", "remove">>)

\* LOCK (a new lock): refused on a conflict; creates an empty resource at a
\* missing target.
handle_lock(c, f, ls, r) ==
    LET p == path(c, r)
        pa == p.path
        meta == metadata(f, pa)
        lock == [token |-> FreshToken(ls), path |-> pa.segs, shared |-> r.lock_shared,
                 deep |-> r.lock_deep, principal |-> c.principal]
    IN IF ~ p.ok THEN Panic(f, ls)
       ELSE IF ~ c.has_ls THEN Failure(ErrStatus(405), f, ls, <<>>)
       ELSE IF \E l \in ls : Conflicts(l, pa.segs, r.lock_shared, r.lock_deep)
       THEN Failure(ErrStatus(423), f, ls, <<"lock">>)
       ELSE IF ~ meta.ok /\ f[Parent(pa.segs)].kind # "dir"
       THEN Failure(ErrStatus(409), f, ls, <<"lock", "metadata">>)
       ELSE Outcome(NoErr, IF meta.ok THEN 200 ELSE 201,
                    {Header("lock-token", lock.token)}, "xml",
                    IF meta.ok THEN f ELSE [f EXCEPT ![pa.segs] = NewFile],
                    ls \cup {lock}, <<"lock", "metadata">>)

\* UNLOCK: the Lock-Token must name a lock on the target held by the
\* principal.
handle_unlock(c, f, ls, r) ==
    LET p == path(c, r)
        pa == p.path
        held == {l \in ls : l.path = pa.segs /\ l.token = r.lock_token}
    IN IF ~ p.ok THEN Panic(f, ls)
       ELSE IF ~ c.has_ls THEN Failure(ErrStatus(405), f, ls, <<>>)
       ELSE IF held = {} THEN Failure(ErrStatus(409), f, ls, <<"unlock">>)
       ELSE IF \E l \in held : l.principal # c.principal
       THEN Failure(ErrStatus(403), f, ls, <<"unlock">>)
       ELSE Outcome(NoErr, 204, {}, "empty", f, ls \ held, <<"unlock">>)

\* PROPFIND, PROPPATCH, COPY and MOVE: only their dispatch and their body
\* intake are modelled, not their effects.
handle_other(c, f, ls, r, verb) ==
    IF ~ path(c, r).ok THEN Panic(f, ls)
    ELSE Outcome(NoErr, IF verb \in {PROPFIND, PROPPATCH} THEN 207 ELSE 201,
                 {}, "xml", f, ls, <<>>)

-----------------------------------------------------------------------------
(* davhandler/handle_options.rs                                            *)

islock(m) == m = LOCK \/ m = UNLOCK

\* A variant of mm that lists LOCK and UNLOCK without a lock system.
mm_locks_always(c, method, y) ==
    /\ (y = OPTIONS \/ (y # method \/ islock(y) # islock(method)))
    /\ Contains(c.allow, y)

\* The closure mm: it pushes the name of verb y when this holds.
mm(c, method, y) ==
    /\ (y = OPTIONS \/ (y # method \/ islock(y) # islock(method)))
    /\ (~ islock(y) \/ c.has_ls)
    /\ Contains(c.allow, y)

\* A variant that offers the verbs of a file for every existing target.
options_verbs_file(is_unmapped, is_file, star, url) ==
    IF is_unmapped /\ ~ star
    THEN <<<<"OPTIONS", OPTIONS>>, <<"MKCOL", MKCOL>>, <<"PUT", PUT>>, <<"LOCK", LOCK>>>>
    ELSE <<<<"HEAD", HEAD>>, <<"GET", GET>>, <<"PATCH", PATCH>>, <<"PUT", PUT>>,
           <<"OPTIONS", OPTIONS>>, <<"PROPFIND", PROPFIND>>, <<"COPY", COPY>>>>
         \o (IF url # "/" THEN <<<<"MOVE", MOVE>>, <<"DELETE", DELETE>>>> ELSE <<>>)
         \o <<<<"LOCK", LOCK>>, <<"UNLOCK", UNLOCK>>>>

\* A variant that treats the star path like any missing target.
options_verbs_star_unmapped(is_unmapped, is_file, star, url) ==
    IF is_unmapped
    THEN <<<<"OPTIONS", OPTIONS>>, <<"MKCOL", MKCOL>>, <<"PUT", PUT>>, <<"LOCK", LOCK>>>>
    ELSE (IF is_file
          THEN <<<<"HEAD", HEAD>>, <<"GET", GET>>, <<"PATCH", PATCH>>, <<"PUT", PUT>>>>
          ELSE <<>>)
         \o <<<<"OPTIONS", OPTIONS>>, <<"PROPFIND", PROPFIND>>, <<"COPY", COPY>>>>
         \o (IF url # "/" THEN <<<<"MOVE", MOVE>>, <<"DELETE", DELETE>>>> ELSE <<>>)
         \o <<<<"LOCK", LOCK>>, <<"UNLOCK", UNLOCK>>>>

\* A variant that offers MOVE and DELETE for every path.
options_verbs_root_moves(is_unmapped, is_file, star, url) ==
    IF is_unmapped /\ ~ star
    THEN <<<<"OPTIONS", OPTIONS>>, <<"MKCOL", MKCOL>>, <<"PUT", PUT>>, <<"LOCK", LOCK>>>>
    ELSE (IF is_file \/ star
          THEN <<<<"HEAD", HEAD>>, <<"GET", GET>>, <<"PATCH", PATCH>>, <<"PUT", PUT>>>>
          ELSE <<>>)
         \o <<<<"OPTIONS", OPTIONS>>, <<"PROPFIND", PROPFIND>>, <<"COPY", COPY>>,
              <<"MOVE", MOVE>>, <<"DELETE", DELETE>>, <<"LOCK", LOCK>>, <<"UNLOCK", UNLOCK>>>>

\* The verbs handle_options offers to mm, in order, each with its name.
options_verbs(is_unmapped, is_file, star, url) ==
    IF is_unmapped /\ ~ star
    THEN <<<<"OPTIONS", OPTIONS>>, <<"MKCOL", MKCOL>>, <<"PUT", PUT>>, <<"LOCK", LOCK>>>>
    ELSE (IF is_file \/ star
          THEN <<<<"HEAD", HEAD>>, <<"GET", GET>>, <<"PATCH", PATCH>>, <<"PUT", PUT>>>>
          ELSE <<>>)
         \o <<<<"OPTIONS", OPTIONS>>, <<"PROPFIND", PROPFIND>>, <<"COPY", COPY>>>>
         \o (IF url # "/" THEN <<<<"MOVE", MOVE>>, <<"DELETE", DELETE>>>> ELSE <<>>)
         \o <<<<"LOCK", LOCK>>, <<"UNLOCK", UNLOCK>>>>

\* v.join(",")
RECURSIVE join(_)
join(v) ==
    IF v = <<>> THEN ""
    ELSE IF Len(v) = 1 THEN Head(v)
    ELSE Head(v) \o "," \o join(Tail(v))

\* handle_options: 200 with the DAV, MS-Author-Via, Content-Length and Allow
\* headers; allow is the Vec v the Allow header is joined from.
handle_options(c, f, ls, r) ==
    LET p == path(c, r)
        method == IF dav_method(r.method).ok THEN dav_method(r.method).verb ELSE OPTIONS
        meta == metadata(f, p.path)
        is_unmapped == ~ meta.ok
        is_file == meta.ok /\ ~ meta.isdir
        star == is_star(p.path) /\ method = OPTIONS
        pushed(e) == mm(c, method, e[2])
        sel == SelectSeq(options_verbs(is_unmapped, is_file, star, as_url_string(p.path)),
                         pushed)
        v == [i \in 1..Len(sel) |-> sel[i][1]]
    IN IF ~ p.ok THEN Panic(f, ls)
       ELSE [Outcome(NoErr, 200,
                     {Header("dav", "1,2,3,sabredav-partialupdate"),
                      Header("ms-author-via", "DAV"),
                      Header("content-length", "0"),
                      Header("allow", join(v))},
                     "empty", f, ls, <<"metadata">>)
             EXCEPT !.allow = v]

-----------------------------------------------------------------------------
(* davhandler/mod.rs: the dispatcher.                                      *)

\* The cap handle2 passes to read_request.
MAX_BODY == 65536

RECURSIVE DataLen(_)
DataLen(data) == IF data = <<>> THEN 0 ELSE Head(data)[2] + DataLen(Tail(data))

\* read_request: drain the body stream into a vector.  The vector is kept as
\* the extents <<item index, byte count>> copied into it, in order; polled
\* counts the stream items taken.
RECURSIVE read_loop(_, _, _, _)
read_loop(body, i, data, max_size) ==
    IF i > Len(body)
    THEN [ok |-> TRUE, data |-> data, polled |-> Len(body), err |-> NoErr]
    ELSE IF body[i].failed
    THEN [ok |-> FALSE, data |-> <<>>, polled |-> i, err |-> ErrIoError]
    ELSE IF body[i].len > 0
    THEN IF DataLen(data) + body[i].len > max_size
         THEN [ok |-> FALSE, data |-> <<>>, polled |-> i, err |-> ErrStatus(413)]
         ELSE read_loop(body, i + 1, Append(data, <<i, body[i].len>>), max_size)
    ELSE read_loop(body, i + 1, data, max_size)

read_request(body, max_size) == read_loop(body, 1, <<>>, max_size)

\* "PUT is the only handler that reads the body itself."
body_is_streamed(verb) == verb = PUT \/ verb = PATCH

\* A variant of the body test that lets DELETE carry a body.
body_accepted_or_delete(verb) == verb \in {PUT, PATCH, PROPFIND, PROPPATCH, LOCK, DELETE}

\* "Not all methods accept a body."
body_accepted(verb) == verb \in {PUT, PATCH, PROPFIND, PROPPATCH, LOCK}

\* What handle2 did: the stage it stopped at ("method", "allow", "path",
\* "body", "media") or "handler"; the verb; the stream items read_request
\* took and the vector it returned; the handler invoked (0: none) with the
\* pre-read body or the unread stream it was given; and the handler's outcome.
Stopped(stage, verb, rd, e, f, ls) ==
    [stage |-> stage, verb |-> verb, polled |-> rd.polled, body_data |-> rd.data,
     handler |-> 0, hdata |-> <<>>, hstream |-> <<>>, has_stream |-> FALSE,
     out |-> Failure(e, f, ls, <<>>)]

\* The final match of handle2: the handler of each verb.
dispatch(c, f, ls, r, verb) ==
    CASE verb = MKCOL -> handle_mkcol(c, f, ls, r)
      [] verb \in {HEAD, GET} -> handle_get(c, f, ls, r)
      [] verb \in {PUT, PATCH} -> handle_put(c, f, ls, r)
      [] verb = DELETE -> handle_delete(c, f, ls, r)
      [] verb = LOCK -> handle_lock(c, f, ls, r)
      [] verb = UNLOCK -> handle_unlock(c, f, ls, r)
      [] verb = OPTIONS -> handle_options(c, f, ls, r)
      [] OTHER -> handle_other(c, f, ls, r, verb)

Dispatched(c, f, ls, r, verb, rd) ==
    [stage |-> "handler", verb |-> verb, polled |-> rd.polled, body_data |-> rd.data,
     handler |-> verb,
     hdata |-> IF verb \in {PROPFIND, PROPPATCH, LOCK} THEN rd.data ELSE <<>>,
     hstream |-> IF body_is_streamed(verb) THEN r.body ELSE <<>>,
     has_stream |-> body_is_streamed(verb),
     out |-> dispatch(c, f, ls, r, verb)]

\* The method check of handle2.
method_allowed(c, verb) == Contains(c.allow, verb)

\* A variant of the body intake whose cap is one byte short.
body_intake_short(r, verb) ==
    IF body_is_streamed(verb)
    THEN [ok |-> TRUE, data |-> <<>>, polled |-> 0, err |-> NoErr]
    ELSE read_request(r.body, MAX_BODY - 1)

\* The body intake of handle2.
body_intake(r, verb) ==
    IF body_is_streamed(verb)
    THEN [ok |-> TRUE, data |-> <<>>, polled |-> 0, err |-> NoErr]
    ELSE read_request(r.body, MAX_BODY)

\* The checks of handle2 before the handler is chosen: the stage that
\* refused the request with its error, or "handler".
Refused(stage, verb, polled, e) ==
    [stage |-> stage, verb |-> verb, e |-> e,
     rd |-> [ok |-> FALSE, data |-> <<>>, polled |-> polled, err |-> e]]

\* A variant of the body check that refuses a body for a verb that takes
\* none before it looks at the result of the intake.
body_check_media_first(verb, rd) ==
    IF ~ body_accepted(verb) /\ (rd.data # <<>> \/ rd.polled > 0)
    THEN [stage |-> "media", verb |-> verb, e |-> ErrStatus(415), rd |-> rd]
    ELSE IF ~ rd.ok THEN Refused("body", verb, rd.polled, rd.err)
    ELSE [stage |-> "handler", verb |-> verb, e |-> NoErr, rd |-> rd]

body_check(verb, rd) ==
    IF ~ rd.ok THEN Refused("body", verb, rd.polled, rd.err)
    ELSE IF ~ body_accepted(verb) /\ rd.data # <<>>
    THEN [stage |-> "media", verb |-> verb, e |-> ErrStatus(415), rd |-> rd]
    ELSE [stage |-> "handler", verb |-> verb, e |-> NoErr, rd |-> rd]

\* A variant of the path check that leaves the parsing to the handler.
path_check_skipped(c, r, verb) == body_check(verb, body_intake(r, verb))

path_check(c, r, verb) ==
    IF ~ from_uri_and_prefix(r.uri, c.prefix).ok
    THEN Refused("path", verb, 0, from_uri_and_prefix(r.uri, c.prefix).err)
    ELSE body_check(verb, body_intake(r, verb))

\* A variant of the method check that parses the path first.
allow_check_after_path(c, r, verb) ==
    IF ~ from_uri_and_prefix(r.uri, c.prefix).ok
    THEN Refused("path", verb, 0, from_uri_and_prefix(r.uri, c.prefix).err)
    ELSE IF ~ method_allowed(c, verb) THEN Refused("allow", verb, 0, ErrStatusClose(405))
    ELSE body_check(verb, body_intake(r, verb))

allow_check(c, r, verb) ==
    IF ~ method_allowed(c, verb) THEN Refused("allow", verb, 0, ErrStatusClose(405))
    ELSE path_check(c, r, verb)

precheck(c, r) ==
    IF ~ dav_method(r.method).ok THEN Refused("method", 0, 0, dav_method(r.method).err)
    ELSE allow_check(c, r, dav_method(r.method).verb)

handle2_from(pc, c, f, ls, r) ==
    IF pc.stage # "handler" THEN Stopped(pc.stage, pc.verb, pc.rd, pc.e, f, ls)
    ELSE Dispatched(c, f, ls, r, pc.verb, pc.rd)

handle2(c, f, ls, r) == handle2_from(precheck(c, r), c, f, ls, r)

\* The User-Agent test of handle_inner.
is_ms(r) == r.user_agent \in {"Microsoft-WebDAV-MiniRedir/10.0"}

\* A variant of the error arm that closes the connection on every error.
error_response_close(e, ms) ==
    [status |-> statuscode(e),
     headers |->
        (IF ms /\ statuscode(e) = 404
         THEN {Header("cache-control", "no-store, no-cache, must-revalidate"),
               Header("progma", "no-cache"), Header("expires", "0"), Header("vary", "*")}
         ELSE {})
        \cup {Header("content-length", "0"), Header("connection", "close")},
     body |-> "empty"]

\* The error arm of handle_inner: a status-only response.
error_response(e, ms) ==
    [status |-> statuscode(e),
     headers |->
        (IF ms /\ statuscode(e) = 404
         THEN {Header("cache-control", "no-store, no-cache, must-revalidate"),
               Header("progma", "no-cache"), Header("expires", "0"), Header("vary", "*")}
         ELSE {})
        \cup {Header("content-length", "0")}
        \cup (IF must_close(e) THEN {Header("connection", "close")} ELSE {}),
     body |-> "empty"]

\* handle_inner: the response handle() returns for what handle2 returned.
handle_inner(h, r) ==
    IF h.out.err = NoErr
    THEN [status |-> h.out.status, headers |-> h.out.headers, body |-> h.out.body]
    ELSE error_response(h.out.err, is_ms(r))

-----------------------------------------------------------------------------
(* The handler configurations and the requests of the model.               *)

Prefix == <<"dav">>

\* DavBuilder: the prefix, the allow set (all methods, the read-only set,
\* none), with or without a lock system, the principal.
Configs ==
    [prefix : {Prefix}, allow : {WEBDAV_RW, WEBDAV_RO, 0}, has_ls : BOOLEAN,
     principal : {NoPrincipal}]

Under(segs, slash) == Uri(Prefix \o segs, slash)
\* A URI outside the prefix.
OutsideUri == Uri(<<"other", "a">>, FALSE)

SeqsUpTo(S, n) == UNION {[1..k -> S] : k \in 0..n}

\* The If headers of the model: absent; one list with a lock token, its
\* negation, an entity tag, a DAV: token; a tagged list.
IfHeaders ==
    {NoIf}
    \cup {IfHdr(<<IfList(NoResourceTag, <<StateToken(t)>>)>>) : t \in Tokens}
    \cup {IfHdr(<<IfList(NoResourceTag, <<Not(StateToken(TokenOf(1)))>>)>>)}
    \cup {IfHdr(<<IfList(NoResourceTag, <<IfETag(e)>>)>>) : e \in ETags}
    \cup {IfHdr(<<IfList(NoResourceTag, <<StateToken("DAV:no-lock")>>)>>)}
    \cup {IfHdr(<<IfList(ResourceTag(Under(<<"a">>, FALSE)), <<StateToken(TokenOf(1))>>)>>)}

\* Requests with conditional headers: every If header alone, and a few If
\* headers with every combination of If-Match and If-None-Match.
Conditional(method, uri) ==
    {[Request(method, uri, <<>>) EXCEPT !.if_hdr = i] : i \in IfHeaders}
    \cup {[Request(method, uri, <<>>) EXCEPT
              !.if_hdr = i, !.if_match = im, !.if_none_match = inm] :
            i \in {NoIf, IfHdr(<<IfList(NoResourceTag, <<IfETag("e2")>>)>>)},
            im \in {NoTagList, Star, TagList({"e1"}), TagList({"e2"})},
            inm \in {NoTagList, Star, TagList({"e1"})}}

\* The requests of Spec: the handlers at work on the store and the locks.
StoreRequests ==
    UNION {Conditional("MKCOL", Under(s, sl)) :
             s \in {<<"a">>, <<"a", "b">>}, sl \in BOOLEAN}
    \cup UNION {Conditional(m, Under(<<"a">>, FALSE)) : m \in {"GET", "HEAD"}}
    \cup UNION {{[Request(m, Under(s, FALSE), <<Chunk(1)>>) EXCEPT !.if_hdr = i] :
                   i \in {NoIf, IfHdr(<<IfList(NoResourceTag, <<StateToken(TokenOf(1))>>)>>)}} :
                 m \in {"PUT", "PATCH"}, s \in {<<"a">>, <<"a", "b">>}}
    \cup UNION {{[Request("DELETE", Under(s, FALSE), <<>>) EXCEPT !.if_hdr = i] :
                   i \in {NoIf, IfHdr(<<IfList(NoResourceTag, <<StateToken(TokenOf(1))>>)>>)}} :
                 s \in {<<"a">>, <<"a", "b">>}}
    \cup {[Request("LOCK", Under(s, FALSE), <<>>) EXCEPT !.lock_shared = sh, !.lock_deep = d] :
            s \in DavPaths, sh \in BOOLEAN, d \in BOOLEAN}
    \cup {[Request("UNLOCK", Under(s, FALSE), <<>>) EXCEPT !.lock_token = t] :
            s \in DavPaths, t \in Tokens}
    \cup {Request(m, Under(<<"a">>, FALSE), <<>>) :
            m \in {"PROPFIND", "PROPPATCH", "COPY", "MOVE"}}
    \cup {Request("OPTIONS", u, <<>>) :
            u \in {Under(Root, FALSE), Under(<<"a">>, FALSE), Under(<<"a">>, TRUE),
                   Under(<<"a", "b">>, FALSE), StarUri}}
    \cup {Request("MKCOL", u, <<>>) : u \in {BadUri, OutsideUri}}

\* The stream items of a request body.
ChunkItems == {Chunk(0), Chunk(1), Chunk(MAX_BODY - 1), Chunk(MAX_BODY), StreamError}
Bodies == SeqsUpTo(ChunkItems, MaxChunks)

\* The requests of SpecDispatch: every method name with every body, and
\* with every kind of URI; a MKCOL below the resource the others address.
DispatchRequests ==
    {Request(m, Under(<<"a">>, FALSE), b) : m \in MethodNames, b \in Bodies}
    \cup {Request("MKCOL", Under(<<"a", "b">>, FALSE), <<>>)}
    \cup {Request(m, u, b) : m \in MethodNames, u \in {BadUri, OutsideUri},
                             b \in {<<>>, <<Chunk(1)>>, <<Chunk(MAX_BODY), Chunk(1)>>}}
    \cup {[Request(m, u, <<>>) EXCEPT !.user_agent = "Microsoft-WebDAV-MiniRedir/10.0"] :
            m \in {"GET", "MKCOL", "BREW"}, u \in {Under(<<"a">>, FALSE), BadUri}}

-----------------------------------------------------------------------------
(* The state machine: a request is received and answered (one action per   *)
(* handler, each the whole of handle()), then the response is returned.    *)

NoResp == [status |-> 0, headers |-> {}, body |-> "empty"]
\* No evaluator was called on its own.
NoEval ==
    [fn |-> "", ok |-> FALSE, tokens |-> <<>>, status |-> 0, meta |-> NoMeta,
     range |-> NoRange]
\* Nothing else is in progress.
IoAtRest ==
    /\ sent = <<>>
    /\ readdir = <<>>
    /\ disk = <<>>
    /\ file = <<>>

AuxAtRest ==
    /\ inflight = <<>>
    /\ IoAtRest

NoRun ==
    [stage |-> "", verb |-> 0, polled |-> 0, body_data |-> <<>>, handler |-> 0,
     hdata |-> <<>>, hstream |-> <<>>, has_stream |-> FALSE, calls |-> <<>>,
     panic |-> FALSE, path |-> Root, pre_fs |-> EmptyFs, pre_locks |-> {},
     pre_created |-> {}, allow |-> <<>>]

Init ==
    /\ cfg \in Configs
    /\ fs = EmptyFs
    /\ locks = {}
    /\ phase = "idle"
    /\ req = NoReq
    /\ resp = NoResp
    /\ err = NoErr
    /\ run = NoRun
    /\ created = {}
    /\ eval = NoEval
    /\ AuxAtRest

\* The collections MKCOL created, after this request.
created_after(h, p) ==
    IF h.handler = MKCOL /\ h.out.err = NoErr /\ h.out.status = 201
    THEN created \cup {p.segs}
    ELSE {q \in created : h.out.fs[q].kind = "dir"}

\* handle(r): the dispatcher and the handler it invokes, as one step.
Serve(r) ==
    /\ phase = "idle"
    /\ \E h \in {handle2(cfg, fs, locks, r)} :
          /\ Cardinality(h.out.locks) <= MaxLocks
          /\ phase' = "done"
          /\ req' = r
          /\ resp' = IF h.out.panic THEN NoResp ELSE handle_inner(h, r)
          /\ err' = h.out.err
          /\ run' = [stage |-> h.stage, verb |-> h.verb, polled |-> h.polled,
                     body_data |-> h.body_data, handler |-> h.handler,
                     hdata |-> h.hdata, hstream |-> h.hstream,
                     has_stream |-> h.has_stream, calls |-> h.out.calls,
                     panic |-> h.out.panic,
                     path |-> from_uri_and_prefix(r.uri, cfg.prefix).path.segs,
                     pre_fs |-> fs, pre_locks |-> locks, pre_created |-> created,
                     allow |-> h.out.allow]
          /\ fs' = h.out.fs
          /\ locks' = h.out.locks
          /\ created' = created_after(h, from_uri_and_prefix(r.uri, cfg.prefix).path)
    /\ UNCHANGED <<cfg, eval, aux>>

\* The request passes the checks of handle2 and goes to the handler of one
\* of these verbs.
Reaches(r, verbs) ==
    /\ dav_method(r.method).verb \in verbs
    /\ precheck(cfg, r).stage = "handler"

\* A request handle2 refuses before it reaches a handler.
Reject(R) == phase = "idle" /\ \E r \in R : precheck(cfg, r).stage # "handler" /\ Serve(r)
Options(R) == phase = "idle" /\ \E r \in R : Reaches(r, {OPTIONS}) /\ Serve(r)
GetHead(R) == phase = "idle" /\ \E r \in R : Reaches(r, {GET, HEAD}) /\ Serve(r)
Put(R) == phase = "idle" /\ \E r \in R : Reaches(r, {PUT, PATCH}) /\ Serve(r)
Mkcol(R) == phase = "idle" /\ \E r \in R : Reaches(r, {MKCOL}) /\ Serve(r)
Delete(R) == phase = "idle" /\ \E r \in R : Reaches(r, {DELETE}) /\ Serve(r)
CopyMove(R) == phase = "idle" /\ \E r \in R : Reaches(r, {COPY, MOVE}) /\ Serve(r)
PropFind(R) == phase = "idle" /\ \E r \in R : Reaches(r, {PROPFIND}) /\ Serve(r)
PropPatch(R) == phase = "idle" /\ \E r \in R : Reaches(r, {PROPPATCH}) /\ Serve(r)
Lock(R) == phase = "idle" /\ \E r \in R : Reaches(r, {LOCK}) /\ Serve(r)
Unlock(R) == phase = "idle" /\ \E r \in R : Reaches(r, {UNLOCK}) /\ Serve(r)

\* The response is handed to the transport; the handler is idle again.
Return ==
    /\ phase = "done"
    /\ phase' = "idle"
    /\ req' = NoReq
    /\ resp' = NoResp
    /\ err' = NoErr
    /\ run' = NoRun
    /\ eval' = NoEval
    /\ UNCHANGED <<cfg, fs, locks, created, aux>>

Handle(R) ==
    \/ Reject(R)
    \/ Options(R)
    \/ GetHead(R)
    \/ Put(R)
    \/ Mkcol(R)
    \/ Delete(R)
    \/ CopyMove(R)
    \/ PropFind(R)
    \/ PropPatch(R)
    \/ Lock(R)
    \/ Unlock(R)

Next == Handle(StoreRequests) \/ Return

Spec == Init /\ [][Next]_vars

NextDispatch == Handle(DispatchRequests) \/ Return

SpecDispatch == Init /\ [][NextDispatch]_vars

-----------------------------------------------------------------------------
(* Properties.  They are stated on the state in which a response is ready: *)
(* req is the request, resp and err what handle() produced for it, run     *)
(* what the dispatcher and the handler did, run.pre_fs and run.pre_locks   *)
(* the backends as the request found them.                                 *)

Done == phase = "done"
\* A handler was invoked for req.
AtHandler(verbs) == Done /\ run.handler \in verbs
\* The handler called this backend operation.
Called(op) == \E i \in 1..Len(run.calls) : run.calls[i] = op
\* The request path, and its metadata when the request arrived.
ReqPath == path(cfg, req).path
PreMeta == metadata(run.pre_fs, ReqPath)
\* Every state token the request's If header carries.
SubmittedTokens(r) ==
    UNION {SeqToSet(ListTokens(r.if_hdr.lists[i].conds)) : i \in 1..Len(r.if_hdr.lists)}
Unchanged == fs = run.pre_fs /\ locks = run.pre_locks
\* An exclusive lock covering the MKCOL target whose token req does not carry.
ForeignLock(l) ==
    /\ l \in run.pre_locks
    /\ ~ l.shared
    /\ Covers(l, run.path)
    /\ l.token \notin SubmittedTokens(req)
\* The If-* and If headers of req evaluate to success.
PreconditionsPass ==
    if_match_get_tokens(req, PreMeta, run.pre_fs, run.pre_locks, cfg.has_ls, ReqPath).ok

\* C1 (as stated): with a lock system, a MKCOL at P, or in the subtree of a
\* depth-infinity lock on P, that does not submit the token of an exclusive
\* lock there is answered 423 Locked, and create_dir is not called.
C1_LockedMkcolIs423 ==
    (AtHandler({MKCOL}) /\ cfg.has_ls) =>
        \A l \in run.pre_locks :
            ForeignLock(l) => resp.status = 423 /\ ~ Called("create_dir")

\* C1 (amended): such a MKCOL is refused and create_dir is not called: with
\* 412 when the evaluation of its If-* and If headers fails (it comes first),
\* with 423 otherwise; the store and the locks are unchanged.
C1_LockedMkcolRefused ==
    (AtHandler({MKCOL}) /\ cfg.has_ls) =>
        \A l \in run.pre_locks :
            ForeignLock(l) =>
                /\ resp.status = (IF PreconditionsPass THEN 423 ELSE 412)
                /\ ~ Called("create_dir")
                /\ Unchanged

\* A MKCOL below a resource under an exclusive depth-infinity lock, without
\* the token, answered 423.
C1_Witness ==
    /\ AtHandler({MKCOL})
    /\ cfg.has_ls
    /\ \E l \in run.pre_locks : ForeignLock(l) /\ l.path # run.path
    /\ resp.status = 423
    /\ Called("check")

\* The status http_if_match returns for req (0: none), and the result of
\* the If header, on the resource as the request found it.
HttpStatus == http_if_match(req, PreMeta)
IfHeaderOk == dav_if_match(req, run.pre_fs, run.pre_locks, cfg.has_ls, ReqPath).ok
\* The handler evaluated the conditional headers of req.
Evaluated(verbs) == AtHandler(verbs) /\ Called("if_match")

\* C2 (as stated): whenever http_if_match returns a status for a request,
\* the response carries exactly that status and neither the store nor the
\* locks changed, for the handlers that use if_match (GET, HEAD) and for the
\* one that uses if_match_get_tokens (MKCOL).
C2_HttpStatusSurfaces ==
    (Evaluated({GET, HEAD, MKCOL}) /\ HttpStatus # 0) =>
        resp.status = HttpStatus /\ Unchanged

\* C2 (amended): when http_if_match returns a status, a handler that uses
\* if_match_get_tokens answers exactly that status; a handler that uses
\* if_match answers it unless the If header evaluates to false, which is
\* tested first and answered 412; either way nothing was mutated.
C2_HttpStatusUnlessIfFails ==
    (Evaluated({GET, HEAD, MKCOL}) /\ HttpStatus # 0) =>
        /\ run.handler = MKCOL => resp.status = HttpStatus
        /\ run.handler \in {GET, HEAD} =>
              resp.status = (IF IfHeaderOk THEN HttpStatus ELSE 412)
        /\ Unchanged

\* A GET whose If-None-Match matches (304 from http_if_match) and whose If
\* header fails, answered 412.
C2_Witness ==
    /\ Evaluated({GET, HEAD})
    /\ HttpStatus = 304
    /\ ~ IfHeaderOk
    /\ resp.status = 412
    /\ Unchanged

\* The MKCOL target and its parent, as the request found them.
PreKind == run.pre_fs[run.path].kind
PreParentKind == run.pre_fs[Parent(run.path)].kind
\* An earlier MKCOL of the target was answered 201, and the collection has
\* not been removed since.
MadeBefore == run.path \in run.pre_created

Unconditional(r) ==
    /\ ~ r.if_hdr.present
    /\ ~ r.if_match.present
    /\ ~ r.if_none_match.present
    /\ ~ r.if_unmodified_since.present
    /\ ~ r.if_modified_since.present

\* C10 (as stated, for the request without conditional headers, which
\* submits no token at all): when a lock exists on the parent collection of
\* the MKCOL target, MKCOL returns 423 and nothing is created.
C10_ParentLockIs423 ==
    (/\ AtHandler({MKCOL})
     /\ cfg.has_ls
     /\ run.path # Root
     /\ Unconditional(req)
     /\ \E l \in run.pre_locks : l.path = Parent(run.path)
     /\ \A l \in run.pre_locks :
            l.path = Parent(run.path) => l.token \notin SubmittedTokens(req))
    => (resp.status = 423 /\ fs = run.pre_fs)

-----------------------------------------------------------------------------
(* Properties of the dispatcher.                                           *)

\* The thirteen method names.
KnownNames ==
    {"HEAD", "GET", "PUT", "PATCH", "OPTIONS", "PROPFIND", "PROPPATCH", "MKCOL",
     "COPY", "MOVE", "DELETE", "LOCK", "UNLOCK"}
\* The verb of req, when its method is one of the thirteen.
ReqVerb == dav_method(req.method).verb
KnownVerb == req.method \in KnownNames
Allowed == KnownVerb /\ Contains(cfg.allow, ReqVerb)
PathParses == from_uri_and_prefix(req.uri, cfg.prefix).ok
HasHeader(name, value) == Header(name, value) \in resp.headers
HeaderNames == {h[1] : h \in resp.headers}

\* C3: a request whose verb is one of the thirteen but not in the allow set
\* is answered 405 with Connection: close, an empty body and
\* Content-Length: 0, whatever its path, headers or body; nothing of the
\* body is read and no handler runs.
C3_DisallowedVerbIs405Close ==
    (Done /\ KnownVerb /\ ~ Contains(cfg.allow, ReqVerb)) =>
        /\ resp.status = 405
        /\ HasHeader("connection", "close")
        /\ HasHeader("content-length", "0")
        /\ resp.body = "empty"
        /\ run.handler = 0
        /\ run.polled = 0
        /\ Unchanged

\* A disallowed verb on an unparsable URI with a body over the cap, answered
\* 405 and closed.
C3_Witness ==
    /\ Done
    /\ KnownVerb
    /\ ~ Contains(cfg.allow, ReqVerb)
    /\ ~ PathParses
    /\ Len(req.body) = 2
    /\ resp.status = 405
    /\ HasHeader("connection", "close")

\* The bytes of the first i stream items of a body.
RECURSIVE PrefixLen(_, _)
PrefixLen(body, i) == IF i = 0 THEN 0 ELSE body[i].len + PrefixLen(body, i - 1)
\* The stream item at which the intake of a body stops short: the first that
\* is an error or takes the length over the cap; 0 when there is none.
StopsAt(body) ==
    LET bad == {i \in 1..Len(body) : body[i].failed \/ PrefixLen(body, i) > MAX_BODY}
    IN IF bad = {} THEN 0 ELSE CHOOSE i \in bad : \A j \in bad : i <= j
\* The non-empty chunks of a body, in order, as <<item, length>>.
RECURSIVE Extents(_, _)
Extents(body, i) ==
    IF i > Len(body) THEN <<>>
    ELSE (IF body[i].len > 0 THEN <<<<i, body[i].len>>>> ELSE <<>>) \o Extents(body, i + 1)
\* The request passed the method, allow and path checks of the dispatcher.
AtIntake == Done /\ Allowed /\ PathParses

\* C4: for a verb other than PUT and PATCH the dispatcher reads the body
\* before any handler runs: it answers 413 at the first stream item that
\* would take the accumulated length over 65,536 bytes, without reading
\* further; otherwise it reads all of it, so a body of exactly 65,536 bytes
\* is accepted, and the handlers that take a body (PROPFIND, PROPPATCH, LOCK)
\* get it complete and in order.  For PUT and PATCH it reads nothing and
\* hands the whole stream to the handler, whatever its size.
C4_BodyIntake ==
    AtIntake =>
        IF ReqVerb \in {PUT, PATCH}
        THEN /\ run.polled = 0
             /\ run.body_data = <<>>
             /\ run.handler = ReqVerb
             /\ run.has_stream
             /\ run.hstream = req.body
        ELSE LET k == StopsAt(req.body) IN
             /\ ~ run.has_stream
             /\ (k # 0 /\ ~ req.body[k].failed) =>
                   /\ resp.status = 413
                   /\ run.polled = k
                   /\ run.handler = 0
                   /\ Unchanged
             /\ (k # 0 /\ req.body[k].failed) =>
                   /\ err = ErrIoError
                   /\ run.polled = k
                   /\ run.handler = 0
             /\ k = 0 =>
                   /\ resp.status # 413
                   /\ run.polled = Len(req.body)
                   /\ run.body_data = Extents(req.body, 1)
                   /\ run.handler \in {PROPFIND, PROPPATCH, LOCK} =>
                         run.hdata = Extents(req.body, 1)

\* A body of exactly 65,536 bytes in two chunks, passed whole to PROPFIND.
C4_Witness ==
    /\ AtIntake
    /\ run.handler = PROPFIND
    /\ Len(req.body) = 2
    /\ PrefixLen(req.body, 2) = MAX_BODY
    /\ DataLen(run.hdata) = MAX_BODY
    /\ Len(run.hdata) = 2

\* The request reached the body test with a body of 1 to 65,536 bytes.
WithBody ==
    /\ AtIntake
    /\ StopsAt(req.body) = 0
    /\ PrefixLen(req.body, Len(req.body)) > 0

\* C5: a request with a non-empty body and verb OPTIONS, HEAD, GET, MKCOL,
\* DELETE, COPY, MOVE or UNLOCK is answered 415 and no handler is invoked;
\* the verbs whose non-empty body reaches the handler are exactly PUT, PATCH,
\* PROPFIND, PROPPATCH and LOCK, which is the set WEBDAV_BODY.
C5_BodyForbidden ==
    /\ {v \in AllVerbs : Contains(WEBDAV_BODY, v)} = {PUT, PATCH, PROPFIND, PROPPATCH, LOCK}
    /\ WithBody =>
          /\ ReqVerb \in {OPTIONS, HEAD, GET, MKCOL, DELETE, COPY, MOVE, UNLOCK} =>
                /\ resp.status = 415
                /\ run.handler = 0
                /\ Unchanged
          /\ run.handler # 0 <=> ReqVerb \in {PUT, PATCH, PROPFIND, PROPPATCH, LOCK}
          /\ run.handler # 0 <=> Contains(WEBDAV_BODY, ReqVerb)
          /\ run.handler # 0 => run.handler = ReqVerb

\* A DELETE with a one-byte body, answered 415.
C5_Witness ==
    /\ WithBody
    /\ ReqVerb = DELETE
    /\ resp.status = 415
    /\ run.handler = 0

\* C6: a method name that is not, case-sensitively, one of the thirteen
\* fails with the unknown-method error before the allow-list check, the
\* path parsing and the body intake; and dav_method maps the thirteen names
\* to thirteen distinct verbs.
C6_UnknownMethodFirst ==
    /\ \A m \in KnownNames : dav_method(m).ok /\ dav_method(m).verb \in AllVerbs
    /\ \A m, n \in KnownNames : dav_method(m).verb = dav_method(n).verb => m = n
    /\ \A m \in MethodNames \ KnownNames : ~ dav_method(m).ok
    /\ (Done /\ ~ KnownVerb) =>
          /\ err = ErrUnknownDavMethod
          /\ run.stage = "method"
          /\ run.polled = 0
          /\ run.handler = 0
          /\ Unchanged

\* The lower-case "mkcol" on an unparsable URI, with a body over the cap, to
\* a handler that allows no method at all: the unknown-method error.
C6_Witness ==
    /\ Done
    /\ req.method = "mkcol"
    /\ cfg.allow = 0
    /\ ~ PathParses
    /\ StopsAt(req.body) # 0
    /\ err = ErrUnknownDavMethod

\* C7: an allowed request whose URI does not parse into a path under the
\* prefix is answered 400 and no handler runs; so the path(req) of every
\* handler that does run, the same parse with the same prefix, never fails.
C7_BadPathIs400 ==
    /\ (Done /\ Allowed /\ ~ PathParses) =>
          /\ resp.status = 400
          /\ err = ErrInvalidPath
          /\ run.stage = "path"
          /\ run.polled = 0
          /\ run.handler = 0
          /\ Unchanged
    /\ (Done /\ run.handler # 0) => (PathParses /\ path(cfg, req).ok /\ ~ run.panic)

\* A MKCOL of a URI outside the prefix, with a body, answered 400.
C7_Witness ==
    /\ Done
    /\ Allowed
    /\ req.uri = OutsideUri
    /\ req.body # <<>>
    /\ resp.status = 400
    /\ run.handler = 0

\* C8: every error the dispatcher or a handler returns becomes a response
\* with the error's status code, an empty body and Content-Length: 0, and
\* with Connection: close exactly when the error is must-close.
C8_ErrorResponse ==
    (Done /\ err # NoErr) =>
        /\ resp.status = statuscode(err)
        /\ resp.body = "empty"
        /\ HasHeader("content-length", "0")
        /\ \A h \in resp.headers : h[1] = "content-length" => h[2] = "0"
        /\ HasHeader("connection", "close") <=> must_close(err)
        /\ "connection" \in HeaderNames <=> must_close(err)

\* A handler's error that keeps the connection: the 404 of a GET, to a
\* Microsoft client.
C8_Witness ==
    /\ Done
    /\ run.handler = GET
    /\ err = ErrFsError("NotFound")
    /\ is_ms(req)
    /\ resp.status = 404
    /\ "connection" \notin HeaderNames
    /\ HasHeader("content-length", "0")

-----------------------------------------------------------------------------
(* conditional.rs, dav_if_match called on its own: the backends are drawn   *)
(* from the states a store and a lock system can be in, the If header from  *)
(* the headers below, and the result is kept in eval.                       *)

MaxLists == 2
MaxConds == 2

\* The conditions of a list: the token of a lock, a token no lock has, a
\* token in the DAV: namespace, an entity tag; each plain and negated.
IfItems ==
    LET plain == {StateToken(TokenOf(1)), StateToken(TokenOf(MaxLocks + 1)),
                  StateToken("DAV:no-lock"), IfETag("e1")}
    IN plain \cup {Not(c) : c \in plain}

\* The resource tags: none, the collection above the request path, a URL
\* outside the prefix.
IfTags == {NoResourceTag, ResourceTag(Under(Root, FALSE)), ResourceTag(OutsideUri)}

\* A list has one to MaxConds conditions (RFC 4918, 10.4.2: "(" 1*Condition ")").
IfLists ==
    {IfList(t, c) : t \in IfTags, c \in SeqsUpTo(IfItems, MaxConds) \ {<<>>}}

\* The lists that follow the first one in the headers of the model.
MoreLists ==
    {IfList(NoResourceTag, <<StateToken(TokenOf(1))>>),
     IfList(ResourceTag(Under(Root, FALSE)), <<IfETag("e1")>>),
     IfList(ResourceTag(OutsideUri), <<Not(StateToken(TokenOf(MaxLocks + 1)))>>)}

\* Requests for /dav/a: without an If header, and with one to MaxLists lists.
IfRequests ==
    {Request("PUT", Under(<<"a">>, FALSE), <<>>)}
    \cup {[Request("PUT", Under(<<"a">>, FALSE), <<>>) EXCEPT
              !.if_hdr = IfHdr(<<l>> \o more)] :
            l \in IfLists, more \in SeqsUpTo(MoreLists, MaxLists - 1)}

\* The stores: /dav/a is missing or a file with either tag.
IfStores ==
    {[EmptyFs EXCEPT ![<<"a">>] = r] : r \in {Absent, NewFile, Touch(NewFile)}}

\* The lock systems: no lock, or one exclusive lock on /dav or on /dav/a.
IfLocks ==
    {{}} \cup {{[token |-> TokenOf(1), path |-> p, shared |-> FALSE, deep |-> d,
                 principal |-> NoPrincipal]} :
                 p \in {Root, <<"a">>}, d \in BOOLEAN}

InitIf ==
    /\ cfg \in {c \in Configs : c.allow = WEBDAV_RW}
    /\ fs \in IfStores
    /\ locks \in IfLocks
    /\ phase = "idle"
    /\ req = NoReq
    /\ resp = NoResp
    /\ err = NoErr
    /\ run = NoRun
    /\ created = {}
    /\ eval = NoEval
    /\ AuxAtRest

\* dav_if_match(req, fs, ls, path) is called and returns (bool, tokens).
DavIfMatch(R) ==
    /\ phase = "idle"
    /\ \E r \in R :
          \E d \in {dav_if_match(r, fs, locks, cfg.has_ls, path(cfg, r).path)} :
              /\ phase' = "done"
              /\ req' = r
              /\ eval' = [NoEval EXCEPT !.fn = "dav_if_match", !.ok = d.ok,
                                        !.tokens = d.tokens]
    /\ UNCHANGED <<cfg, fs, locks, resp, err, run, created, aux>>

NextIf == DavIfMatch(IfRequests) \/ Return

SpecIf == InitIf /\ [][NextIf]_vars

-----------------------------------------------------------------------------
(* Properties of dav_if_match, on the state in which it has returned: req  *)
(* is the request, fs and locks the backends it read, eval its result.     *)

AtDavIfMatch == Done /\ eval.fn = "dav_if_match"
IfListsOf(r) == r.if_hdr.lists
\* The resource tag of a list, if any, resolves under the prefix.
TagResolves(l) == ~ l.tag.present \/ from_uri_and_prefix(l.tag.uri, cfg.prefix).ok
\* The resource a list is about.
ListPath(l) ==
    IF l.tag.present THEN from_uri_and_prefix(l.tag.uri, cfg.prefix).path
    ELSE path(cfg, req).path
\* The truth value of a condition, as the evaluator is described.
TokenTruth(l, t) ==
    /\ ~ IsDavNamespace(t)
    /\ TagResolves(l)
    /\ cfg.has_ls
    /\ ls_check(locks, ListPath(l), NoPrincipal, TRUE, FALSE, {t})
ETagTruth(l, e) ==
    /\ TagResolves(l)
    /\ metadata(fs, ListPath(l)).ok
    /\ metadata(fs, ListPath(l)).has_etag
    /\ metadata(fs, ListPath(l)).etag = e
Truth(l, c) == IF c.kind = "token" THEN TokenTruth(l, c.val) ELSE ETagTruth(l, c.val)
\* Every condition of the list has the value its Not flag asks for.
ListTrue(l) == \A i \in 1..Len(l.conds) : Truth(l, l.conds[i]) = ~ l.conds[i].not

\* C11: dav_if_match returns true when the request has no If header, and
\* otherwise returns true exactly when at least one list of the header
\* evaluates true.
C11_TrueIffSomeListTrue ==
    AtDavIfMatch =>
        eval.ok = (\/ ~ req.if_hdr.present
                   \/ \E i \in 1..Len(IfListsOf(req)) : ListTrue(IfListsOf(req)[i]))

\* A header whose first list is false and whose second list is true.
C11_Witness ==
    /\ AtDavIfMatch
    /\ Len(IfListsOf(req)) = MaxLists
    /\ ~ ListTrue(IfListsOf(req)[1])
    /\ ListTrue(IfListsOf(req)[MaxLists])
    /\ eval.ok

\* C12: a list of the If header, with any number of conditions, evaluates
\* true if and only if, for every condition of the list, the condition's
\* truth value equals the negation of its Not flag.  (The result of a header
\* of one list is the value of that list.)
C12_ListIsConjunction ==
    (AtDavIfMatch /\ Len(IfListsOf(req)) = 1) =>
        (eval.ok <=> \A i \in 1..Len(IfListsOf(req)[1].conds) :
                        LET c == IfListsOf(req)[1].conds[i]
                        IN Truth(IfListsOf(req)[1], c) = ~ c.not)

\* A list of MaxConds conditions, a negated one among them, that is true.
C12_Witness ==
    /\ AtDavIfMatch
    /\ Len(IfListsOf(req)) = 1
    /\ Len(IfListsOf(req)[1].conds) = MaxConds
    /\ \E i \in 1..MaxConds : IfListsOf(req)[1].conds[i].not
    /\ \E i \in 1..MaxConds : ~ IfListsOf(req)[1].conds[i].not
    /\ eval.ok

\* C13: the truth value of a single condition.  A state-token condition is
\* true exactly when the token is not in the DAV: namespace, the list's
\* resource tag (if any) resolves under the prefix, a lock system is
\* configured and its check for the list's resource with only this token
\* succeeds.  An entity-tag condition is true exactly when the resource tag
\* is valid, the metadata of the resource can be read and its ETag equals
\* the tag.  (In a header of one list of one condition the result is the
\* condition's value, inverted when the condition is negated.)
C13_ConditionTruth ==
    (AtDavIfMatch /\ Len(IfListsOf(req)) = 1 /\ Len(IfListsOf(req)[1].conds) = 1) =>
        LET l == IfListsOf(req)[1]
            c == l.conds[1]
            value == (eval.ok # c.not)
        IN IF c.kind = "token"
           THEN value <=> TokenTruth(l, c.val)
           ELSE value <=> ETagTruth(l, c.val)

\* A token condition, about the tagged collection and not negated, that is
\* true while a lock covers that collection.
C13_Witness ==
    /\ AtDavIfMatch
    /\ Len(IfListsOf(req)) = 1
    /\ Len(IfListsOf(req)[1].conds) = 1
    /\ IfListsOf(req)[1].tag.present
    /\ IfListsOf(req)[1].conds[1].kind = "token"
    /\ ~ IfListsOf(req)[1].conds[1].not
    /\ \E l \in locks : Covers(l, ListPath(IfListsOf(req)[1]).segs)
    /\ eval.ok

\* The conditions of all lists of the header, in header order.
RECURSIVE AllConds(_)
AllConds(lists) == IF lists = <<>> THEN <<>> ELSE Head(lists).conds \o AllConds(Tail(lists))
\* The state tokens among them, in that order.
HeaderTokens(r) ==
    LET IsToken(c) == c.kind = "token"
        sel == SelectSeq(AllConds(r.if_hdr.lists), IsToken)
    IN [i \in 1..Len(sel) |-> sel[i].val]

\* C14: dav_if_match returns every state token that appears anywhere in the
\* If header, in header order, whatever its result: tokens of negated
\* conditions, tokens in the DAV: namespace, tokens of lists whose resource
\* tag is invalid and tokens of lists after a list that is already true are
\* included; without an If header it returns no tokens.
C14_AllTokensReturned ==
    AtDavIfMatch =>
        eval.tokens = IF req.if_hdr.present THEN HeaderTokens(req) ELSE <<>>

\* The first list is true on a negated DAV: token; the second has an invalid
\* resource tag and a negated token; both tokens are returned.
C14_Witness ==
    /\ AtDavIfMatch
    /\ Len(IfListsOf(req)) = MaxLists
    /\ ListTrue(IfListsOf(req)[1])
    /\ IfListsOf(req)[1].conds = <<Not(StateToken("DAV:no-lock"))>>
    /\ ~ TagResolves(IfListsOf(req)[MaxLists])
    /\ eval.ok
    /\ Len(eval.tokens) = MaxLists
    /\ eval.tokens[1] = "DAV:no-lock"

-----------------------------------------------------------------------------
(* conditional.rs, http_if_match and ifrange_match called on their own: the *)
(* request headers and the metadata are drawn from the sets below.         *)

\* Modification times (nanoseconds from the epoch): half a second before the
\* epoch, and whole and half seconds of the first seconds after it.
HalfSec == NanosPerSec \div 2
ModTimes ==
    {0 - HalfSec, 0, HalfSec, NanosPerSec, NanosPerSec + HalfSec, NanosPerSec + NanosPerSec}
\* The dates a header can carry: whole seconds at or after the epoch.
HeaderSecs == {0, 1, 2}

\* Option<&dyn DavMetaData>: none when the resource does not exist; the
\* entity tag and the modification time are each available or not.
Metas ==
    {NoMeta}
    \cup {[ok |-> TRUE, isdir |-> FALSE, has_etag |-> TRUE, etag |-> e,
           has_modified |-> TRUE, modified |-> t] : e \in ETags, t \in ModTimes}
    \cup {[ok |-> TRUE, isdir |-> FALSE, has_etag |-> FALSE, etag |-> "e1",
           has_modified |-> hm, modified |-> IF hm THEN NanosPerSec ELSE 0] : hm \in BOOLEAN}
    \cup {[ok |-> TRUE, isdir |-> FALSE, has_etag |-> TRUE, etag |-> "e1",
           has_modified |-> FALSE, modified |-> 0]}

TagLists == {NoTagList, Star, TagList({"e1"}), TagList({"e1", "e2"})}
Dates == {NoDate} \cup {Date(s) : s \in HeaderSecs}

\* Requests with every combination of the four If-* headers.
HttpRequests ==
    {[Request(m, Under(<<"a">>, FALSE), <<>>) EXCEPT
         !.if_match = im, !.if_none_match = inm,
         !.if_unmodified_since = ius, !.if_modified_since = ims] :
       m \in {"GET", "HEAD", "PUT", "DELETE"}, im \in TagLists, inm \in TagLists,
       ius \in Dates, ims \in Dates}

\* The arguments of ifrange_match.
RangeCalls ==
    {RangeArgs(h, ht, IF ht THEN e ELSE "e1", hd, IF hd THEN t ELSE 0) :
       h \in {IfRangeDate(s) : s \in HeaderSecs} \cup {IfRangeETag(x) : x \in ETags},
       ht \in BOOLEAN, e \in ETags, hd \in BOOLEAN, t \in ModTimes}

InitHttp ==
    /\ cfg \in {c \in Configs : c.allow = WEBDAV_RW /\ c.has_ls}
    /\ fs = EmptyFs
    /\ locks = {}
    /\ phase = "idle"
    /\ req = NoReq
    /\ resp = NoResp
    /\ err = NoErr
    /\ run = NoRun
    /\ created = {}
    /\ eval = NoEval
    /\ AuxAtRest

\* http_if_match(req, meta) is called and returns Option<StatusCode>.
HttpIfMatch(R) ==
    /\ phase = "idle"
    /\ \E r \in R, meta \in Metas :
          /\ phase' = "done"
          /\ req' = r
          /\ eval' = [NoEval EXCEPT !.fn = "http_if_match", !.meta = meta,
                                    !.status = http_if_match(r, meta)]
    /\ UNCHANGED <<cfg, fs, locks, resp, err, run, created, aux>>

\* ifrange_match(hdr, tag, date) is called and returns bool.
IfRangeMatch ==
    /\ phase = "idle"
    /\ \E a \in RangeCalls :
          /\ phase' = "done"
          /\ eval' = [NoEval EXCEPT !.fn = "ifrange_match", !.range = a,
                                    !.ok = ifrange_match(a)]
    /\ UNCHANGED <<cfg, fs, locks, req, resp, err, run, created, aux>>

NextHttp == HttpIfMatch(HttpRequests) \/ IfRangeMatch \/ Return

SpecHttp == InitHttp /\ [][NextHttp]_vars

-----------------------------------------------------------------------------
(* Properties of http_if_match and ifrange_match, on the state in which    *)
(* the function has returned: req and eval.meta (or eval.range) are its    *)
(* arguments, eval.status (0 for none) or eval.ok its result.              *)

AtHttpIfMatch == Done /\ eval.fn = "http_if_match"
AtIfRangeMatch == Done /\ eval.fn = "ifrange_match"
\* The whole seconds of a time.
Secs(t) == t \div NanosPerSec
Later(t, date) == Secs(t) > Secs(date)
\* An If-Match or If-None-Match value matches the resource of eval.meta:
\* `*` when the resource exists, a list when it has the resource's ETag.
TagsMatch(list) ==
    IF list.star THEN eval.meta.ok
    ELSE eval.meta.ok /\ eval.meta.has_etag /\ eval.meta.etag \in list.tags
\* If-Match, or without it If-Unmodified-Since, fails.
FirstHalfFails ==
    \/ req.if_match.present /\ ~ TagsMatch(req.if_match)
    \/ /\ ~ req.if_match.present
       /\ req.if_unmodified_since.present
       /\ \/ ~ eval.meta.has_modified
          \/ Later(eval.meta.modified, req.if_unmodified_since.time)

\* C15: http_if_match returns 412 for every verb when If-Match is present
\* and no listed tag equals the resource's ETag (If-Match: * fails exactly
\* when the resource does not exist), and, when If-Match is absent and
\* If-Unmodified-Since is present, when the modification time is later than
\* the header date or is unavailable.
C15_IfMatchFails412 ==
    AtHttpIfMatch =>
        /\ (req.if_match.present /\ ~ req.if_match.star
              /\ ~ (eval.meta.ok /\ eval.meta.has_etag
                      /\ \E t \in req.if_match.tags : t = eval.meta.etag))
           => eval.status = 412
        /\ (req.if_match.present /\ req.if_match.star /\ ~ eval.meta.ok)
           => eval.status = 412
        /\ (req.if_match.present /\ req.if_match.star /\ eval.meta.ok
              /\ ~ req.if_none_match.present)
           => eval.status # 412
        /\ (~ req.if_match.present /\ req.if_unmodified_since.present
              /\ (\/ ~ eval.meta.has_modified
                  \/ Later(eval.meta.modified, req.if_unmodified_since.time)))
           => eval.status = 412

\* A GET without If-Match whose If-Unmodified-Since date is a second before
\* the modification time, answered 412.
C15_Witness ==
    /\ AtHttpIfMatch
    /\ req.method = "GET"
    /\ ~ req.if_match.present
    /\ req.if_unmodified_since.present
    /\ eval.meta.has_modified
    /\ Later(eval.meta.modified, req.if_unmodified_since.time)
    /\ eval.status = 412

\* C16 (as stated): when If-None-Match matches, http_if_match returns 304 for
\* GET and HEAD and 412 for every other verb; when If-None-Match is absent,
\* If-Modified-Since gives 304 only for GET or HEAD and only when the
\* modification time is not later than the header date; http_if_match never
\* returns a status other than 304 or 412, and returns 304 only for GET or
\* HEAD.
C16_NoneMatchStatus ==
    AtHttpIfMatch =>
        /\ (req.if_none_match.present /\ TagsMatch(req.if_none_match))
           => eval.status = IF req.method \in {"GET", "HEAD"} THEN 304 ELSE 412
        /\ (~ req.if_none_match.present /\ req.if_modified_since.present
              /\ eval.status = 304)
           => /\ req.method \in {"GET", "HEAD"}
              /\ eval.meta.has_modified
              /\ ~ Later(eval.meta.modified, req.if_modified_since.time)
        /\ eval.status \in {0, 304, 412}
        /\ eval.status = 304 => req.method \in {"GET", "HEAD"}

\* C16 (amended): the same, for a request whose If-Match or (without
\* If-Match) If-Unmodified-Since has not failed; when one of them fails the
\* result is 412 for every verb, whatever If-None-Match says.
C16_NoneMatchStatusAfterIfMatch ==
    AtHttpIfMatch =>
        /\ (~ FirstHalfFails /\ req.if_none_match.present /\ TagsMatch(req.if_none_match))
           => eval.status = IF req.method \in {"GET", "HEAD"} THEN 304 ELSE 412
        /\ FirstHalfFails => eval.status = 412
        /\ (~ req.if_none_match.present /\ req.if_modified_since.present
              /\ eval.status = 304)
           => /\ req.method \in {"GET", "HEAD"}
              /\ eval.meta.has_modified
              /\ ~ Later(eval.meta.modified, req.if_modified_since.time)
        /\ eval.status \in {0, 304, 412}
        /\ eval.status = 304 => req.method \in {"GET", "HEAD"}

\* A GET whose If-Match and If-None-Match both match, answered 304.
C16_Witness ==
    /\ AtHttpIfMatch
    /\ req.method = "GET"
    /\ req.if_match.present
    /\ TagsMatch(req.if_match)
    /\ req.if_none_match.present
    /\ TagsMatch(req.if_none_match)
    /\ eval.status = 304

\* C17: in the If-Unmodified-Since, If-Modified-Since and If-Range
\* comparisons both times are truncated to whole seconds before they are
\* compared, for every modification time: the outcome is that of comparing
\* the whole seconds, and a modification time that differs from the header
\* date only in its sub-second part compares equal, so that
\* If-Unmodified-Since passes and If-Modified-Since yields 304.
C17_WholeSeconds ==
    /\ (AtHttpIfMatch /\ ~ req.if_match.present /\ req.if_unmodified_since.present
          /\ ~ req.if_none_match.present /\ eval.meta.has_modified)
       => /\ eval.status = 412
             <=> Secs(eval.meta.modified) > Secs(req.if_unmodified_since.time)
          /\ Secs(eval.meta.modified) = Secs(req.if_unmodified_since.time)
             => eval.status # 412
    /\ (AtHttpIfMatch /\ ~ req.if_match.present /\ ~ req.if_unmodified_since.present
          /\ ~ req.if_none_match.present /\ req.if_modified_since.present
          /\ req.method \in {"GET", "HEAD"} /\ eval.meta.has_modified)
       => /\ eval.status = 304
             <=> Secs(eval.meta.modified) <= Secs(req.if_modified_since.time)
          /\ Secs(eval.meta.modified) = Secs(req.if_modified_since.time)
             => eval.status = 304
    /\ (AtIfRangeMatch /\ eval.range.hdr.kind = "date" /\ ~ eval.range.has_tag
          /\ eval.range.has_date)
       => (eval.ok <=> Secs(eval.range.date) = Secs(eval.range.hdr.time))

\* A GET whose If-Modified-Since date is half a second before the
\* modification time, answered 304.
C17_Witness ==
    /\ AtHttpIfMatch
    /\ req.method = "GET"
    /\ ~ req.if_match.present
    /\ ~ req.if_unmodified_since.present
    /\ ~ req.if_none_match.present
    /\ req.if_modified_since.present
    /\ eval.meta.has_modified
    /\ eval.meta.modified - HalfSec = req.if_modified_since.time
    /\ eval.status = 304

-----------------------------------------------------------------------------
(* Properties of the OPTIONS handler, on the state in which its response   *)
(* is ready: run.allow is the list the Allow header was joined from.       *)

AtOptions == AtHandler({OPTIONS}) /\ err = NoErr
\* The verbs the Allow header lists.
Listed == SeqToSet(run.allow)
FileVerbs ==
    {"HEAD", "GET", "PATCH", "PUT", "OPTIONS", "PROPFIND", "COPY", "MOVE", "DELETE",
     "LOCK", "UNLOCK"}

\* C18: in an OPTIONS response the Allow header contains, for a target that
\* does not exist (and is not `*`), only verbs from OPTIONS, MKCOL, PUT and
\* LOCK; for an existing file only verbs from HEAD, GET, PATCH, PUT, OPTIONS,
\* PROPFIND, COPY, MOVE, DELETE, LOCK and UNLOCK; and for an existing
\* collection never HEAD, GET, PATCH or PUT.
C18_AllowByTarget ==
    AtOptions =>
        /\ HasHeader("allow", join(run.allow))
        /\ (~ req.uri.star /\ ~ PreMeta.ok)
           => Listed \subseteq {"OPTIONS", "MKCOL", "PUT", "LOCK"}
        /\ (PreMeta.ok /\ ~ PreMeta.isdir) => Listed \subseteq FileVerbs
        /\ (PreMeta.ok /\ PreMeta.isdir)
           => Listed \cap {"HEAD", "GET", "PATCH", "PUT"} = {}

\* OPTIONS for an existing collection below the root, with every verb the
\* collection can have.
C18_Witness ==
    /\ AtOptions
    /\ PreMeta.ok
    /\ PreMeta.isdir
    /\ run.path # Root
    /\ Listed = FileVerbs \ {"HEAD", "GET", "PATCH", "PUT"}

\* C19: every verb listed in the Allow header of an OPTIONS response is in
\* the handler's configured allow set, and LOCK and UNLOCK are listed only
\* when a lock system is configured.
C19_AllowWithinConfig ==
    AtOptions =>
        /\ \A n \in Listed : dav_method(n).ok /\ Contains(cfg.allow, dav_method(n).verb)
        /\ ("LOCK" \in Listed \/ "UNLOCK" \in Listed) => cfg.has_ls

\* OPTIONS for a missing target at a handler that allows every verb and has
\* no lock system: LOCK is the one verb left out.
C19_Witness ==
    /\ AtOptions
    /\ cfg.allow = WEBDAV_RW
    /\ ~ cfg.has_ls
    /\ ~ req.uri.star
    /\ ~ PreMeta.ok
    /\ run.allow = <<"OPTIONS", "MKCOL", "PUT">>

\* A store in which /dav/a is a file, and OPTIONS for that file.
StoreWithFile == [EmptyFs EXCEPT ![<<"a">>] = NewFile]
OptionsForFile ==
    handle_options(cfg, StoreWithFile, locks, Request("OPTIONS", Under(<<"a">>, FALSE), <<>>))

\* C20: `OPTIONS *` returns 200 with an Allow header that contains at least
\* OPTIONS and lists verbs as for an existing file, even though no resource
\* exists at `*`.
C20_OptionsStar ==
    (AtOptions /\ req.uri.star) =>
        /\ ~ PreMeta.ok
        /\ resp.status = 200
        /\ "OPTIONS" \in Listed
        /\ run.allow = OptionsForFile.allow
        /\ HasHeader("allow", join(OptionsForFile.allow))

\* `OPTIONS *` at a handler that allows every verb and has a lock system.
C20_Witness ==
    /\ AtOptions
    /\ req.uri.star
    /\ cfg.allow = WEBDAV_RW
    /\ cfg.has_ls
    /\ resp.status = 200
    /\ Listed = FileVerbs

-----------------------------------------------------------------------------
(* OPTIONS at handlers with different prefixes: the prefix is empty or     *)
(* /dav, the store has a collection or nothing at the prefix, and /a below *)
(* it is missing, a file or a collection.                                  *)

OptionsConfigs ==
    [prefix : {Root, Prefix}, allow : {WEBDAV_RW, WEBDAV_RO, 0}, has_ls : BOOLEAN,
     principal : {NoPrincipal}]

OptionsStores ==
    {[EmptyFs EXCEPT ![<<"a">>] = r] : r \in {Absent, NewFile, NewDir}}
    \cup {[EmptyFs EXCEPT ![Root] = Absent]}

\* OPTIONS for the root with a trailing slash, for the root without one
\* (when the prefix is not empty), for /a, and for `*`.
OptionsRequests(prefix) ==
    {Request("OPTIONS", u, <<>>) :
       u \in {Uri(prefix, TRUE), Uri(prefix \o <<"a">>, FALSE), Uri(prefix \o <<"a">>, TRUE),
              StarUri}
             \cup (IF prefix = Root THEN {} ELSE {Uri(prefix, FALSE)})}

InitOptions ==
    /\ cfg \in OptionsConfigs
    /\ fs \in OptionsStores
    /\ locks = {}
    /\ phase = "idle"
    /\ req = NoReq
    /\ resp = NoResp
    /\ err = NoErr
    /\ run = NoRun
    /\ created = {}
    /\ eval = NoEval
    /\ AuxAtRest

NextOptions ==
    \/ Reject(OptionsRequests(cfg.prefix))
    \/ Options(OptionsRequests(cfg.prefix))
    \/ Return

SpecOptions == InitOptions /\ [][NextOptions]_vars

\* C21: an OPTIONS response for the root path `/` never lists MOVE or DELETE,
\* whatever the allow set, the lock system and the prefix.
C21_RootNeverMoveDelete ==
    (AtOptions /\ ~ req.uri.star /\ run.path = Root) =>
        /\ "MOVE" \notin Listed
        /\ "DELETE" \notin Listed

\* OPTIONS for `/` at a handler without prefix that allows every verb: COPY
\* and LOCK are listed, MOVE and DELETE are not.
C21_Witness ==
    /\ AtOptions
    /\ cfg.prefix = Root
    /\ cfg.allow = WEBDAV_RW
    /\ cfg.has_ls
    /\ ~ req.uri.star
    /\ run.path = Root
    /\ PreMeta.ok
    /\ {"COPY", "LOCK", "UNLOCK"} \subseteq Listed
    /\ "MOVE" \notin Listed
    /\ "DELETE" \notin Listed

-----------------------------------------------------------------------------
(* davhandler/mod.rs, handle_with and handle_stream_with: several calls on  *)
(* the same handler, their steps interleaved.  cfg is the shared handler   *)
(* (&self); each call has the handler it dispatches with in `this`.        *)

MaxCalls == 2

\* The shared handler of this specification.
SharedHandler ==
    [prefix |-> Prefix, allow |-> WEBDAV_RW, has_ls |-> TRUE, principal |-> NoPrincipal]

\* Option<String> arguments.
NoPrefixArg == [some |-> FALSE, val |-> <<>>]
SomePrefix(segs) == [some |-> TRUE, val |-> segs]
NoPrincipalArg == [some |-> FALSE, val |-> ""]
SomePrincipal(name) == [some |-> TRUE, val |-> name]

\* A variant of the clone that is the shared handler itself.
share_handler(c) == [shared |-> TRUE, cfg |-> c]

\* let mut this = self.clone(): a handler of its own with the same fields.
clone_handler(c) == [shared |-> FALSE, cfg |-> c]

\* The handler a call's `this` stands for.
This(call) == IF call.this.shared THEN cfg ELSE call.this.cfg

\* The prefix the call assigns: handle_with joins the handler's prefix and
\* the argument with "/", handle_stream_with takes the argument.
new_prefix(fn, old, arg) == IF fn = "handle_with" THEN old \o arg ELSE arg

NoCall ==
    [pc |-> "idle", fn |-> "", req |-> NoReq, prefix |-> NoPrefixArg,
     principal |-> NoPrincipalArg, this |-> clone_handler(SharedHandler),
     used |-> SharedHandler, status |-> 0]

\* The arguments of the calls: a prefix or none, a principal or none, and a
\* request below the prefix the call will have.
CallArgs ==
    {[fn |-> f, prefix |-> p, principal |-> u] :
       f \in {"handle_with", "handle_stream_with"},
       p \in {NoPrefixArg, SomePrefix(<<"u">>)},
       u \in {NoPrincipalArg, SomePrincipal("alice")}}

CallRequest(a) ==
    Request("MKCOL",
            Uri((IF a.prefix.some THEN new_prefix(a.fn, SharedHandler.prefix, a.prefix.val)
                 ELSE SharedHandler.prefix) \o <<"a">>, FALSE),
            <<>>)

InitWith ==
    /\ cfg = SharedHandler
    /\ fs = EmptyFs
    /\ locks = {}
    /\ phase = "idle"
    /\ req = NoReq
    /\ resp = NoResp
    /\ err = NoErr
    /\ run = NoRun
    /\ created = {}
    /\ eval = NoEval
    /\ inflight = [p \in 1..MaxCalls |-> NoCall]
    /\ IoAtRest

\* The call is made and clones the handler.
CallWith(p) ==
    /\ inflight[p].pc = "idle"
    /\ \E a \in CallArgs :
          inflight' = [inflight EXCEPT ![p] =
                          [NoCall EXCEPT !.pc = "cloned", !.fn = a.fn, !.req = CallRequest(a),
                                         !.prefix = a.prefix, !.principal = a.principal,
                                         !.this = clone_handler(cfg)]]
    /\ UNCHANGED <<core, io>>

\* if let Some(prefix) = prefix { this.prefix = ... }
SetPrefix(p) ==
    /\ inflight[p].pc = "cloned"
    /\ LET call == inflight[p]
           value == new_prefix(call.fn, This(call).prefix, call.prefix.val)
       IN IF ~ call.prefix.some
          THEN /\ inflight' = [inflight EXCEPT ![p].pc = "prefixed"]
               /\ cfg' = cfg
          ELSE IF call.this.shared
          THEN /\ inflight' = [inflight EXCEPT ![p].pc = "prefixed"]
               /\ cfg' = [cfg EXCEPT !.prefix = value]
          ELSE /\ inflight' = [inflight EXCEPT ![p].pc = "prefixed",
                                               ![p].this.cfg.prefix = value]
               /\ cfg' = cfg
    /\ UNCHANGED <<fs, locks, phase, req, resp, err, run, created, eval, io>>

\* if let Some(principal) = principal { this.principal = ... }
SetPrincipal(p) ==
    /\ inflight[p].pc = "prefixed"
    /\ LET call == inflight[p]
       IN IF ~ call.principal.some
          THEN /\ inflight' = [inflight EXCEPT ![p].pc = "ready"]
               /\ cfg' = cfg
          ELSE IF call.this.shared
          THEN /\ inflight' = [inflight EXCEPT ![p].pc = "ready"]
               /\ cfg' = [cfg EXCEPT !.principal = call.principal.val]
          ELSE /\ inflight' = [inflight EXCEPT ![p].pc = "ready",
                                               ![p].this.cfg.principal = call.principal.val]
               /\ cfg' = cfg
    /\ UNCHANGED <<fs, locks, phase, req, resp, err, run, created, eval, io>>

\* this.handle_inner(req): the request is dispatched with `this`.
HandleInner(p) ==
    /\ inflight[p].pc = "ready"
    /\ \E h \in {handle2(This(inflight[p]), fs, locks, inflight[p].req)} :
          /\ Cardinality(h.out.locks) <= MaxLocks
          /\ fs' = h.out.fs
          /\ locks' = h.out.locks
          /\ inflight' = [inflight EXCEPT
                             ![p].pc = "done",
                             ![p].used = This(inflight[p]),
                             ![p].status = IF h.out.panic THEN 0
                                           ELSE handle_inner(h, inflight[p].req).status]
    /\ UNCHANGED <<cfg, phase, req, resp, err, run, created, eval, io>>

\* The response is returned to the caller.
Respond(p) ==
    /\ inflight[p].pc = "done"
    /\ inflight' = [inflight EXCEPT ![p] = NoCall]
    /\ UNCHANGED <<core, io>>

NextWith ==
    \E p \in 1..MaxCalls :
        \/ CallWith(p)
        \/ SetPrefix(p)
        \/ SetPrincipal(p)
        \/ HandleInner(p)
        \/ Respond(p)

SpecWith == InitWith /\ [][NextWith]_vars

\* The handler a call has to dispatch with: the shared handler with the
\* call's own prefix and principal where it gave them.
OwnHandler(call) ==
    [SharedHandler EXCEPT
        !.prefix = IF ~ call.prefix.some THEN @
                   ELSE IF call.fn = "handle_with" THEN @ \o call.prefix.val
                   ELSE call.prefix.val,
        !.principal = IF call.principal.some THEN call.principal.val ELSE @]

\* C22: handle_with and handle_stream_with apply the per-request prefix and
\* principal only to a private clone of the handler: the shared handler's
\* prefix, principal, allow set and lock system are the same after any
\* number of such calls as before, and under any interleaving of concurrent
\* requests each request is dispatched with its own override and never with
\* another request's.
C22_OverridesArePrivate ==
    /\ cfg = SharedHandler
    /\ \A p \in 1..MaxCalls :
          inflight[p].pc = "done" => inflight[p].used = OwnHandler(inflight[p])

\* Two calls with different overrides have both been dispatched.
C22_Witness ==
    /\ inflight[1].pc = "done"
    /\ inflight[MaxCalls].pc = "done"
    /\ inflight[1].prefix.some
    /\ inflight[1].principal.some
    /\ ~ inflight[MaxCalls].prefix.some
    /\ ~ inflight[MaxCalls].principal.some
    /\ inflight[1].used # inflight[MaxCalls].used
    /\ inflight[1].status = 201

(***************************************************************************)
(* body.rs: the response Body and its Stream implementation.               *)
(***************************************************************************)
\* The longest producer script and the number of polls a consumer makes.
MaxItems == 3
MaxPolls == 4

\* Poll<Option<io::Result<Bytes>>>
PollPending == [ready |-> FALSE, some |-> FALSE, ok |-> FALSE, bytes |-> ""]
ReadyNone == [ready |-> TRUE, some |-> FALSE, ok |-> FALSE, bytes |-> ""]
ReadyErr == [ready |-> TRUE, some |-> TRUE, ok |-> FALSE, bytes |-> ""]
ReadyOk(b) == [ready |-> TRUE, some |-> TRUE, ok |-> TRUE, bytes |-> b]

\* Option<Bytes>
NoBytes == [some |-> FALSE, val |-> ""]
SomeBytes(b) == [some |-> TRUE, val |-> b]

\* BodyType::Bytes(Option<Bytes>) and BodyType::Stream(BoxStream): the boxed
\* producer is any stream, given by the results its polls will return.
BodyBytes(o) == [type |-> "Bytes", bytes |-> o, stream |-> <<>>]
BodyStream(s) == [type |-> "Stream", bytes |-> NoBytes, stream |-> s]

\* Body::empty()
body_empty == BodyBytes(NoBytes)
\* From<Bytes> for Body (From<String> and From<&str> convert and do the same)
body_from(t) == BodyBytes(SomeBytes(t))
\* Body::stream(stream)
body_stream(s) == BodyStream(s)

\* Option::take leaves None in the place of the value it returns.
take_keep(o) == [val |-> o, left |-> o]
take(o) == [val |-> o, left |-> NoBytes]

\* Option::map(Ok) wrapped in Poll::Ready
ready_map_ok(o) == IF o.some THEN ReadyOk(o.val) ELSE ReadyNone

\* The producer's poll_next: the next result of its script; a producer that
\* has run out of script is at its end.
stream_poll_next(s) ==
    IF s = <<>> THEN [item |-> ReadyNone, stream |-> <<>>]
    ELSE [item |-> Head(s), stream |-> Tail(s)]

\* <Body as Stream>::poll_next: the result for the consumer, the Body after
\* the call and the number of polls of the producer the call made.
poll_next_prefetch(b) ==
    IF b.type = "Bytes"
    THEN [item |-> ready_map_ok(take(b.bytes).val),
          body |-> [b EXCEPT !.bytes = take(b.bytes).left], polled |-> 0]
    ELSE LET p == stream_poll_next(b.stream)
             q == stream_poll_next(p.stream)
         IN [item |-> p.item, body |-> [b EXCEPT !.stream = q.stream], polled |-> 2]

poll_next(b) ==
    IF b.type = "Bytes"
    THEN [item |-> ready_map_ok(take(b.bytes).val),
          body |-> [b EXCEPT !.bytes = take(b.bytes).left], polled |-> 0]
    ELSE LET p == stream_poll_next(b.stream)
         IN [item |-> p.item, body |-> [b EXCEPT !.stream = p.stream], polled |-> 1]

\* <Body as HttpBody>::poll_data
poll_data(b) == poll_next(b)

\* StreamBody::new(body): a request body stream wrapped as an http_body::Body.
stream_body_new(s) == [type |-> "StreamBody", bytes |-> NoBytes, stream |-> s]

\* <StreamBody as HttpBody>::poll_data: this.body.poll_next(cx)
stream_body_poll_data(b) ==
    LET p == stream_poll_next(b.stream)
    IN [item |-> p.item, body |-> [b EXCEPT !.stream = p.stream], polled |-> 1]

\* Poll<Result<Option<HeaderMap>, Error>>
TrailersNone == [ready |-> TRUE, ok |-> TRUE, some |-> FALSE]
TrailersSome == [ready |-> TRUE, ok |-> TRUE, some |-> TRUE]

\* <Body as HttpBody>::poll_trailers
poll_trailers_when_drained(b) ==
    IF b.bytes = NoBytes /\ b.stream = <<>> THEN TrailersSome ELSE TrailersNone

poll_trailers(b) == TrailersNone

\* <StreamBody as HttpBody>::poll_trailers
stream_body_poll_trailers(b) == TrailersNone

\* The buffers and the producers a Body is made of.
Buffers == {"", "x", "y"}
PollResults == {PollPending, ReadyNone, ReadyErr, ReadyOk("x"), ReadyOk("y")}
Producers == UNION {[1..n -> PollResults] : n \in 0..MaxItems}
MadeBodies ==
    {body_empty} \cup {body_from(t) : t \in Buffers} \cup {body_stream(s) : s \in Producers}
    \cup {stream_body_new(s) : s \in Producers}

\* A Body was made and handed to its consumer, which has not polled it yet.
InitBody ==
    /\ cfg = [prefix |-> Root, allow |-> {}, has_ls |-> FALSE, principal |-> NoPrincipal]
    /\ fs = EmptyFs
    /\ locks = {}
    /\ phase = "idle"
    /\ req = NoReq
    /\ resp = NoResp
    /\ err = NoErr
    /\ run = NoRun
    /\ created = {}
    /\ eval = NoEval
    /\ inflight = <<>>
    /\ readdir = <<>>
    /\ disk = <<>>
    /\ file = <<>>
    /\ \E b \in MadeBodies :
          sent = [made |-> b, body |-> b, polls |-> 0, out |-> <<>>, trailers |-> {}]

\* The consumer polls the Body as a Stream.
PollNext ==
    /\ Len(sent.out) < MaxPolls
    /\ sent.body.type # "StreamBody"
    /\ LET r == poll_next(sent.body)
       IN sent' = [sent EXCEPT !.body = r.body, !.polls = @ + r.polled,
                               !.out = Append(@, r.item)]
    /\ UNCHANGED <<core, inflight, readdir, disk, file>>

\* The consumer polls the Body as an http_body::Body.
PollData ==
    /\ Len(sent.out) < MaxPolls
    /\ LET r == IF sent.body.type = "StreamBody" THEN stream_body_poll_data(sent.body)
                ELSE poll_data(sent.body)
       IN sent' = [sent EXCEPT !.body = r.body, !.polls = @ + r.polled,
                               !.out = Append(@, r.item)]
    /\ UNCHANGED <<core, inflight, readdir, disk, file>>

\* The consumer polls for trailers, once at most between two polls for data;
\* the result is recorded with the number of data polls made before it.
PollTrailers ==
    /\ \A t \in sent.trailers : t.at # Len(sent.out)
    /\ LET r == IF sent.body.type = "StreamBody" THEN stream_body_poll_trailers(sent.body)
                ELSE poll_trailers(sent.body)
       IN sent' = [sent EXCEPT !.trailers = @ \cup {[at |-> Len(sent.out), item |-> r]}]
    /\ UNCHANGED <<core, inflight, readdir, disk, file>>

NextBody == PollNext \/ PollData \/ PollTrailers

SpecBody == InitBody /\ [][NextBody]_vars

\* The Body was made of a buffer, or of none / of a producer.
Eager == sent.made.type = "Bytes"
Lazy == sent.made.type = "Stream"
\* The results a producer gives to its first n polls.
Produced(s, n) == [i \in 1..n |-> IF i <= Len(s) THEN s[i] ELSE ReadyNone]
\* What is left of a producer after n polls.
LeftAfter(s, n) == IF n >= Len(s) THEN <<>> ELSE SubSeq(s, n + 1, Len(s))

\* C23: an eager Body yields its buffer on the first poll and only then, and
\* end-of-stream on every later poll; an empty Body yields end-of-stream on
\* the first poll already; an eager Body yields no error (and is never pending).
C23_EagerOnce ==
    Eager =>
        \A i \in 1..Len(sent.out) :
            sent.out[i] = IF i = 1 /\ sent.made.bytes.some
                          THEN ReadyOk(sent.made.bytes.val)
                          ELSE ReadyNone

C23_Witness ==
    /\ Eager
    /\ sent.made.bytes.some
    /\ Len(sent.out) = MaxPolls
    /\ sent.out[1] = ReadyOk("x")
    /\ sent.out[2] = ReadyNone

\* C24: after a Body has yielded an I/O error, no later poll of it yields a
\* chunk.
C24_ErrorTerminates ==
    \A i, j \in 1..Len(sent.out) :
        (i < j /\ sent.out[i] = ReadyErr) => ~ (sent.out[j].some /\ sent.out[j].ok)

\* C25: a lazy Body polls its producer once for each poll of the consumer and
\* returns what the producer returned: the consumer has been given the
\* producer's results in order, none dropped or repeated, and the producer has
\* been advanced no further than that.
C25_BackPressure ==
    Lazy =>
        /\ sent.polls = Len(sent.out)
        /\ sent.out = Produced(sent.made.stream, Len(sent.out))
        /\ sent.body.stream = LeftAfter(sent.made.stream, Len(sent.out))

C25_Witness ==
    /\ Lazy
    /\ Len(sent.made.stream) = MaxItems
    /\ Len(sent.out) = 2
    /\ sent.out[1] = PollPending
    /\ sent.out[2] = ReadyOk("x")
    /\ sent.body.stream = <<ReadyOk("y")>>

(***************************************************************************)
(* fs/localfs.rs: the directory stream ReadDir.                            *)
(* The stream has no dir_cache (it is kept for case-insensitive file       *)
(* systems only and does not change what the stream yields).               *)
(***************************************************************************)
\* for _ in 0..256
BATCH == 256
\* The directories read have up to MaxBatches full batches of entries.
MaxBatches == 2

\* io::Result<DirEntry> in the buffer: the i-th entry of the directory, or an
\* error.
DirOk(i) == [ok |-> TRUE, entry |-> i]
DirErr == [ok |-> FALSE, entry |-> 0]

\* Poll<Option<Box<dyn DavDirEntry>>>
DirPending == [ready |-> FALSE, some |-> FALSE, entry |-> 0]
DirNone == [ready |-> TRUE, some |-> FALSE, entry |-> 0]
DirSome(i) == [ready |-> TRUE, some |-> TRUE, entry |-> i]

\* Option<tokio::fs::ReadDir>: the iterator is given by the number of
\* next_entry calls made on it.
NoIterator == [some |-> FALSE, pos |-> 0]
SomeIterator(n) == [some |-> TRUE, pos |-> n]

\* Option<BoxFuture<ReadDirBatch>>: the iterator moved into the future and
\* whether the future has been polled (and was pending).
NoFut == [some |-> FALSE, iterator |-> NoIterator, waiting |-> FALSE]
SomeFut(it) == [some |-> TRUE, iterator |-> it, waiting |-> FALSE]

\* tokio::fs::ReadDir::next_entry on a directory d = [len, err_at] after pos
\* calls: call number err_at fails, the calls before and after it return the
\* directory's entries in turn, and at the end it returns Ok(None).
next_entry(d, pos) ==
    IF pos + 1 = d.err_at THEN [kind |-> "Err", entry |-> 0]
    ELSE IF pos + 1 <= d.len THEN [kind |-> "Some", entry |-> pos + 1]
    ELSE [kind |-> "None", entry |-> 0]

\* The loop of read_batch, for _ in 0..rounds: the rounds in which next_entry
\* returns no entry are those where the loop breaks; the loop makes calls up to
\* the first of them and pushes every entry, and the error if it ends by one.
batch_loop(d, pos, rounds) ==
    LET breaks == {j \in 1..rounds : next_entry(d, pos + j - 1).kind # "Some"}
        calls == IF breaks = {} THEN rounds
                 ELSE CHOOSE j \in breaks : \A k \in breaks : j <= k
        pushed == IF breaks # {} /\ next_entry(d, pos + calls - 1).kind = "None"
                  THEN calls - 1 ELSE calls
    IN [buffer |-> [j \in 1..pushed |->
                       IF next_entry(d, pos + j - 1).kind = "Some"
                       THEN DirOk(next_entry(d, pos + j - 1).entry) ELSE DirErr],
        iterator |-> SomeIterator(pos + calls)]

\* read_batch(iterator, do_meta)
read_batch(d, iterator) ==
    IF ~ iterator.some THEN [buffer |-> <<>>, iterator |-> NoIterator]
    ELSE batch_loop(d, iterator.pos, BATCH)

\* ReadDir::read_batch(&mut self): the iterator is moved into the future.
take_iterator(this) == [this EXCEPT !.iterator = NoIterator, !.fut = SomeFut(this.iterator)]

\* The end of <ReadDir as Stream>::poll_next: pop from the buffer.
pop_front_unfused(this) ==
    IF this.buffer # <<>> /\ Head(this.buffer).ok
    THEN [item |-> DirSome(Head(this.buffer).entry),
          this |-> [this EXCEPT !.buffer = Tail(this.buffer)]]
    ELSE [item |-> DirNone,
          this |-> [this EXCEPT !.buffer = IF this.buffer = <<>> THEN <<>> ELSE Tail(this.buffer)]]

pop_front(this) ==
    IF this.buffer # <<>> /\ Head(this.buffer).ok
    THEN [item |-> DirSome(Head(this.buffer).entry),
          this |-> [this EXCEPT !.buffer = Tail(this.buffer)]]
    ELSE [item |-> DirNone,
          this |-> [this EXCEPT !.buffer = IF this.buffer = <<>> THEN <<>> ELSE Tail(this.buffer),
                                !.iterator = NoIterator]]

\* <ReadDir as Stream>::poll_next on directory d; ready tells whether the
\* future, if it is polled, completes. The result carries the item for the
\* consumer, the stream after the call and the next_entry calls made.
dir_poll_next(d, this, ready) ==
    IF this.buffer # <<>>
    THEN [item |-> pop_front(this).item, this |-> pop_front(this).this, reads |-> 0]
    ELSE IF ~ this.fut.some /\ ~ this.iterator.some
    THEN [item |-> DirNone, this |-> this, reads |-> 0]
    ELSE LET t == IF this.fut.some THEN this ELSE take_iterator(this)
         IN IF ~ ready
            THEN [item |-> DirPending, this |-> [t EXCEPT !.fut.waiting = TRUE], reads |-> 0]
            ELSE LET batch == read_batch(d, t.fut.iterator)
                     u == [t EXCEPT !.fut = NoFut, !.buffer = batch.buffer,
                                    !.iterator = batch.iterator]
                 IN [item |-> pop_front(u).item, this |-> pop_front(u).this,
                     reads |-> batch.iterator.pos - t.fut.iterator.pos]

\* The directories read: their sizes are around the batch boundaries, and the
\* failing call, if any, is around them too.
DirSizes == {0, 1, 2} \cup {k * BATCH + e : k \in 1..MaxBatches, e \in {-1, 0, 1}}
ErrCalls == {0, 1, 2, BATCH, BATCH + 1}
Dirs == {d \in [len : DirSizes, err_at : ErrCalls] : d.err_at <= d.len + 1}

\* LocalFs::read_dir returned the stream.
InitReadDir ==
    /\ cfg = [prefix |-> Root, allow |-> {}, has_ls |-> FALSE, principal |-> NoPrincipal]
    /\ fs = EmptyFs
    /\ locks = {}
    /\ phase = "idle"
    /\ req = NoReq
    /\ resp = NoResp
    /\ err = NoErr
    /\ run = NoRun
    /\ created = {}
    /\ eval = NoEval
    /\ inflight = <<>>
    /\ sent = <<>>
    /\ disk = <<>>
    /\ file = <<>>
    /\ \E d \in Dirs :
          readdir = [dir |-> d,
                     this |-> [buffer |-> <<>>, iterator |-> SomeIterator(0), fut |-> NoFut],
                     reads |-> 0, out |-> <<>>, waits |-> 0, ended |-> 0,
                     end_reads |-> 0]

\* The consumer may poll twice more after the end of the stream.
MayPoll == readdir.ended < 3

\* The consumer polls the stream; a batch, if one is needed, is read.
PollReady ==
    /\ MayPoll
    /\ LET r == dir_poll_next(readdir.dir, readdir.this, TRUE)
       IN readdir' = [readdir EXCEPT !.this = r.this, !.reads = @ + r.reads,
                                     !.out = Append(@, r.item),
                                     !.ended = IF r.item = DirNone THEN @ + 1 ELSE @,
                                     !.end_reads = IF r.item = DirNone /\ readdir.ended = 0
                                                   THEN readdir.reads + r.reads ELSE @]
    /\ UNCHANGED <<core, inflight, sent, disk, file>>

\* The consumer polls the stream and the batch it waits for is not read yet;
\* the consumer is woken when it is.
PollPendingBatch ==
    /\ MayPoll
    /\ readdir.this.buffer = <<>>
    /\ readdir.this.fut.some \/ readdir.this.iterator.some
    /\ ~ readdir.this.fut.waiting
    /\ LET r == dir_poll_next(readdir.dir, readdir.this, FALSE)
       IN /\ r.item = DirPending
          /\ readdir' = [readdir EXCEPT !.this = r.this, !.waits = @ + 1]
    /\ UNCHANGED <<core, inflight, sent, disk, file>>

NextReadDir == PollReady \/ PollPendingBatch

SpecReadDir == InitReadDir /\ [][NextReadDir]_vars

\* What the consumer was given by the polls that were not pending.
Yielded == readdir.out
\* The number of entries the iterator produces before its end or first error.
Readable(d) == IF d.err_at = 0 THEN d.len ELSE d.err_at - 1
\* The stream has returned end-of-stream.
StreamEnded == readdir.ended > 0

\* C26: the stream yields the iterator's entries once each and in order,
\* whatever the batch boundaries; it ends at the iterator's end or first
\* error, after all the entries read before it; and from its first
\* end-of-stream on every poll returns end-of-stream and the directory is
\* not read.
C26_EntriesInOrder ==
    /\ Yielded = [i \in 1..Len(Yielded) |->
                      IF i <= Readable(readdir.dir) THEN DirSome(i) ELSE DirNone]
    /\ StreamEnded => readdir.reads = readdir.end_reads

C26_Witness ==
    /\ readdir.dir.len = BATCH + 1
    /\ readdir.dir.err_at = 0
    /\ readdir.ended = 3
    /\ Len(Yielded) = BATCH + 4
    /\ readdir.reads = BATCH + 3
    /\ readdir.waits = 3
    /\ Yielded[BATCH + 1] = DirSome(BATCH + 1)

(***************************************************************************)
(* fs/localfs.rs: the operations of LocalFs on the disk.  The disk holds   *)
(* two names, "a" and "b", in the base directory; "a/c" names a path below *)
(* "a" at which nothing exists.  is_forbidden (localfs_macos.rs) is given  *)
(* by the set of paths it holds for.                                       *)
(***************************************************************************)
TopPaths == {"a", "b"}
DiskPaths == TopPaths \cup {"a/c"}
DiskKinds == {"absent", "file", "dir"}

\* LocalFs::is_forbidden
is_forbidden(l, p) == p \in l.forbidden

\* A system call and its outcome, as logged.
Call(name, p, q, errno) == [call |-> name, path |-> p, to |-> q, errno |-> errno]

\* Path resolution: the error of a call on a path whose directory part is a
\* file or holds no such name; "OK" for a name of the base directory.
path_error(tree, p) ==
    IF p \in TopPaths THEN "OK"
    ELSE IF tree["a"] = "file" THEN "ENOTDIR" ELSE "ENOENT"

KindOf(tree, p) == IF p \in TopPaths THEN tree[p] ELSE "absent"

\* rename(2); broken: the call fails with an I/O error.
os_rename(tree, from, to, broken) ==
    LET errno ==
            IF broken THEN "EIO"
            ELSE IF path_error(tree, from) # "OK" THEN path_error(tree, from)
            ELSE IF KindOf(tree, from) = "absent" THEN "ENOENT"
            ELSE IF path_error(tree, to) # "OK" THEN path_error(tree, to)
            ELSE IF KindOf(tree, from) = "dir" /\ KindOf(tree, to) = "file" THEN "ENOTDIR"
            ELSE IF KindOf(tree, from) = "file" /\ KindOf(tree, to) = "dir" THEN "EISDIR"
            ELSE "OK"
    IN [errno |-> errno,
        tree |-> IF errno = "OK" /\ from # to
                 THEN [tree EXCEPT ![to] = tree[from], ![from] = "absent"]
                 ELSE tree,
        log |-> <<Call("rename", from, to, errno)>>]

\* unlink(2)
os_remove_file(tree, p, broken) ==
    LET errno ==
            IF broken THEN "EIO"
            ELSE IF path_error(tree, p) # "OK" THEN path_error(tree, p)
            ELSE IF KindOf(tree, p) = "absent" THEN "ENOENT"
            ELSE IF KindOf(tree, p) = "dir" THEN "EISDIR"
            ELSE "OK"
    IN [errno |-> errno,
        tree |-> IF errno = "OK" THEN [tree EXCEPT ![p] = "absent"] ELSE tree,
        log |-> <<Call("remove_file", p, "", errno)>>]

\* rmdir(2)
os_remove_dir(tree, p, broken) ==
    LET errno ==
            IF broken THEN "EIO"
            ELSE IF path_error(tree, p) # "OK" THEN path_error(tree, p)
            ELSE IF KindOf(tree, p) = "absent" THEN "ENOENT"
            ELSE IF KindOf(tree, p) = "file" THEN "ENOTDIR"
            ELSE "OK"
    IN [errno |-> errno,
        tree |-> IF errno = "OK" THEN [tree EXCEPT ![p] = "absent"] ELSE tree,
        log |-> <<Call("remove_dir", p, "", errno)>>]

\* mkdir(2)
os_create_dir(tree, p, broken) ==
    LET errno ==
            IF broken THEN "EIO"
            ELSE IF path_error(tree, p) # "OK" THEN path_error(tree, p)
            ELSE IF KindOf(tree, p) # "absent" THEN "EEXIST"
            ELSE "OK"
    IN [errno |-> errno,
        tree |-> IF errno = "OK" THEN [tree EXCEPT ![p] = "dir"] ELSE tree,
        log |-> <<Call("create_dir", p, "", errno)>>]

\* open(2) for writing, with or without O_CREAT
os_open(tree, p, create, broken) ==
    LET errno ==
            IF broken THEN "EIO"
            ELSE IF path_error(tree, p) # "OK" THEN path_error(tree, p)
            ELSE IF KindOf(tree, p) = "dir" THEN "EISDIR"
            ELSE IF KindOf(tree, p) = "absent" /\ ~ create THEN "ENOENT"
            ELSE "OK"
    IN [errno |-> errno,
        tree |-> IF errno = "OK" THEN [tree EXCEPT ![p] = "file"] ELSE tree,
        log |-> <<Call("open", p, "", errno)>>]

\* std::fs::copy
os_copy(tree, from, to, broken) ==
    LET errno ==
            IF broken THEN "EIO"
            ELSE IF path_error(tree, from) # "OK" THEN path_error(tree, from)
            ELSE IF KindOf(tree, from) = "absent" THEN "ENOENT"
            ELSE IF KindOf(tree, from) = "dir" THEN "EISDIR"
            ELSE IF path_error(tree, to) # "OK" THEN path_error(tree, to)
            ELSE IF KindOf(tree, to) = "dir" THEN "EISDIR"
            ELSE "OK"
    IN [errno |-> errno,
        tree |-> IF errno = "OK" THEN [tree EXCEPT ![to] = "file"] ELSE tree,
        log |-> <<Call("copy", from, to, errno)>>]

\* Path::is_dir: false when the path cannot be examined.
os_is_dir(tree, p, broken) ==
    LET is == ~ broken /\ KindOf(tree, p) = "dir"
    IN [is |-> is, log |-> <<Call("is_dir", p, "", IF is THEN "TRUE" ELSE "FALSE")>>]

\* FsResult<()>: Ok(()), Err(FsError::Forbidden), or the error of a system
\* call converted by e.into().
FsOk == [ok |-> TRUE, forbidden |-> FALSE, errno |-> "OK"]
FsForbidden == [ok |-> FALSE, forbidden |-> TRUE, errno |-> ""]
FsResultOf(errno) == IF errno = "OK" THEN FsOk ELSE [ok |-> FALSE, forbidden |-> FALSE, errno |-> errno]

\* What an operation returns: its result, the disk after it and the system
\* calls it made. fault is the number of the call that fails with EIO, if any.
Forbidden403(tree) == [result |-> FsForbidden, tree |-> tree, calls |-> <<>>]
Performed(r) == [result |-> FsResultOf(r.errno), tree |-> r.tree, calls |-> r.log]

\* LocalFs::open
local_open(l, tree, p, create, fault) ==
    IF is_forbidden(l, p) THEN Forbidden403(tree)
    ELSE Performed(os_open(tree, p, create, fault = 1))

\* LocalFs::create_dir
local_create_dir(l, tree, p, fault) ==
    IF is_forbidden(l, p) THEN Forbidden403(tree)
    ELSE Performed(os_create_dir(tree, p, fault = 1))

\* LocalFs::remove_dir
local_remove_dir(l, tree, p, fault) ==
    Performed(os_remove_dir(tree, p, fault = 1))

\* LocalFs::remove_file
local_remove_file(l, tree, p, fault) ==
    IF is_forbidden(l, p) THEN Forbidden403(tree)
    ELSE Performed(os_remove_file(tree, p, fault = 1))

\* The Err(e) arm of LocalFs::rename after the first rename failed with r1.
rename_retry_always(tree, from, to, r1, fault) ==
    LET r3 == os_remove_file(r1.tree, to, fault = 3)
        r4 == os_rename(r3.tree, from, to, fault = 4)
    IN [result |-> FsResultOf(r4.errno), tree |-> r4.tree,
        calls |-> r1.log \o r3.log \o r4.log]

rename_retry(tree, from, to, r1, fault) ==
    LET d == os_is_dir(r1.tree, from, fault = 2)
    IN IF r1.errno = "ENOTDIR" /\ d.is
       THEN LET r3 == os_remove_file(r1.tree, to, fault = 3)
                r4 == os_rename(r3.tree, from, to, fault = 4)
            IN [result |-> FsResultOf(r4.errno), tree |-> r4.tree,
                calls |-> r1.log \o d.log \o r3.log \o r4.log]
       ELSE [result |-> FsResultOf(r1.errno), tree |-> r1.tree,
             calls |-> r1.log \o (IF r1.errno = "ENOTDIR" THEN d.log ELSE <<>>)]

\* LocalFs::rename
local_rename(l, tree, from, to, fault) ==
    IF is_forbidden(l, from) \/ is_forbidden(l, to) THEN Forbidden403(tree)
    ELSE LET r1 == os_rename(tree, from, to, fault = 1)
         IN IF r1.errno = "OK" THEN Performed(r1)
            ELSE rename_retry(tree, from, to, r1, fault)

\* LocalFs::copy
local_copy(l, tree, from, to, fault) ==
    IF is_forbidden(l, from) \/ is_forbidden(l, to) THEN Forbidden403(tree)
    ELSE Performed(os_copy(tree, from, to, fault = 1))

\* The disks and the LocalFs values of the model.
Trees == [TopPaths -> DiskKinds]
ForbiddenSets == {{}} \cup {{p} : p \in DiskPaths}
Faults == 0..4
NoOp == [fn |-> "", path |-> "", to |-> ""]

InitLocalFs ==
    /\ cfg = [prefix |-> Root, allow |-> {}, has_ls |-> FALSE, principal |-> NoPrincipal]
    /\ fs = EmptyFs
    /\ locks = {}
    /\ phase = "idle"
    /\ req = NoReq
    /\ resp = NoResp
    /\ err = NoErr
    /\ run = NoRun
    /\ created = {}
    /\ eval = NoEval
    /\ inflight = <<>>
    /\ sent = <<>>
    /\ readdir = <<>>
    /\ file = <<>>
    /\ \E t \in Trees, f \in ForbiddenSets :
          disk = [this |-> [forbidden |-> f], tree |-> t, before |-> t, op |-> NoOp,
                  result |-> FsOk, calls |-> <<>>]

\* The disk and the record of the last operation after fn on p (and q)
\* returned r.
Operated(fn, p, q, r) ==
    [disk EXCEPT !.tree = r.tree, !.before = disk.tree,
                 !.op = [fn |-> fn, path |-> p, to |-> q],
                 !.result = r.result, !.calls = r.calls]

FsOpen ==
    /\ \E p \in DiskPaths, create \in BOOLEAN, fault \in 0..1 :
          /\ create => p \in TopPaths
          /\ disk' = Operated("open", p, "", local_open(disk.this, disk.tree, p, create, fault))
    /\ UNCHANGED <<core, inflight, sent, readdir, file>>

FsCreateDir ==
    /\ \E p \in TopPaths, fault \in 0..1 :
          disk' = Operated("create_dir", p, "", local_create_dir(disk.this, disk.tree, p, fault))
    /\ UNCHANGED <<core, inflight, sent, readdir, file>>

FsRemoveDir ==
    /\ \E p \in DiskPaths, fault \in 0..1 :
          disk' = Operated("remove_dir", p, "", local_remove_dir(disk.this, disk.tree, p, fault))
    /\ UNCHANGED <<core, inflight, sent, readdir, file>>

FsRemoveFile ==
    /\ \E p \in DiskPaths, fault \in 0..1 :
          disk' = Operated("remove_file", p, "", local_remove_file(disk.this, disk.tree, p, fault))
    /\ UNCHANGED <<core, inflight, sent, readdir, file>>

FsRename ==
    /\ \E p \in DiskPaths, q \in TopPaths, fault \in Faults :
          disk' = Operated("rename", p, q, local_rename(disk.this, disk.tree, p, q, fault))
    /\ UNCHANGED <<core, inflight, sent, readdir, file>>

FsCopy ==
    /\ \E p \in DiskPaths, q \in TopPaths, fault \in 0..1 :
          disk' = Operated("copy", p, q, local_copy(disk.this, disk.tree, p, q, fault))
    /\ UNCHANGED <<core, inflight, sent, readdir, file>>

NextLocalFs == FsOpen \/ FsCreateDir \/ FsRemoveDir \/ FsRemoveFile \/ FsRename \/ FsCopy

SpecLocalFs == InitLocalFs /\ [][NextLocalFs]_vars

\* The last operation was fn, and it was (not) given a forbidden path.
LastOp(fn) == disk.op.fn = fn
OnForbidden == disk.op.path \in disk.this.forbidden \/ disk.op.to \in disk.this.forbidden
\* The system calls of the last operation that change the disk.
Renames == {k \in 1..Len(disk.calls) : disk.calls[k].call = "rename"}
Removals == {k \in 1..Len(disk.calls) : disk.calls[k].call = "remove_file"}
FirstRename == Call("rename", disk.op.path, disk.op.to, disk.calls[1].errno)
SourceWasDir == KindOf(disk.before, disk.op.path) = "dir"

\* C27: rename first attempts one rename; only if that fails with ENOTDIR and
\* the source is a directory it removes the target file and renames again,
\* once, and returns what the second rename returned; any other failure of
\* the first rename is returned and the target is not touched.
C27_RenameRetry ==
    (LastOp("rename") /\ ~ OnForbidden) =>
        /\ Len(disk.calls) >= 1
        /\ disk.calls[1] = FirstRename
        /\ IF Cardinality(Renames) > 1 \/ Removals # {}
           THEN /\ disk.calls[1].errno = "ENOTDIR"
                /\ SourceWasDir
                /\ Len(disk.calls) = 4
                /\ Renames = {1, 4}
                /\ Removals = {3}
                /\ disk.calls[3].path = disk.op.to
                /\ disk.calls[4] = Call("rename", disk.op.path, disk.op.to, disk.calls[4].errno)
                /\ disk.result = FsResultOf(disk.calls[4].errno)
           ELSE /\ disk.result = FsResultOf(disk.calls[1].errno)
                /\ ~ disk.result.ok => disk.tree = disk.before

C27_Witness ==
    /\ LastOp("rename")
    /\ ~ OnForbidden
    /\ Len(disk.calls) = 4
    /\ disk.calls[1].errno = "ENOTDIR"
    /\ disk.calls[3].errno = "OK"
    /\ disk.result = FsOk
    /\ disk.before[disk.op.to] = "file"
    /\ disk.tree[disk.op.to] = "dir"

\* C28: open, create_dir, remove_dir, remove_file, rename and copy on a
\* forbidden path (either path of rename and copy) fail with Forbidden and
\* make no system call.
C28_ForbiddenNoDiskOp ==
    (disk.op.fn # "" /\ OnForbidden) =>
        /\ disk.result = FsForbidden
        /\ disk.calls = <<>>
        /\ disk.tree = disk.before

(***************************************************************************)
(* handle_inner: the cache headers of an error response.                   *)
(***************************************************************************)
\* The four headers meant to keep Windows from caching a 404.
NoCacheHeaders ==
    {Header("cache-control", "no-store, no-cache, must-revalidate"),
     Header("pragma", "no-cache"), Header("expires", "0"), Header("vary", "*")}
NoCacheNames == {h[1] : h \in NoCacheHeaders}

\* C29: an error response to a user agent containing "Microsoft" with status
\* 404 carries Cache-Control: no-store, no-cache, must-revalidate,
\* Pragma: no-cache, Expires: 0 and Vary: *; an error response to any other
\* user agent or with any other status carries none of these headers.
C29_NoCacheOn404 ==
    (Done /\ err # NoErr) =>
        IF is_ms(req) /\ resp.status = 404
        THEN NoCacheHeaders \subseteq resp.headers
        ELSE HeaderNames \cap NoCacheNames = {}

(***************************************************************************)
(* handle_mkcol: the response of a successful MKCOL.                       *)
(***************************************************************************)
\* MKCOL succeeded: the handler returned Ok.
MkcolOk == AtHandler({MKCOL}) /\ err = NoErr

\* C30: a successful MKCOL is answered 201, and, the resource created being
\* a collection, whether or not the request URL ends with a slash, the
\* response carries Content-Location with the prefixed URL of the collection
\* ending with a slash.
C30_CreatedContentLocation ==
    MkcolOk =>
        /\ resp.status = 201
        /\ fs[ReqPath.segs].kind = "dir"
        /\ HasHeader("content-location", with_prefix_url(add_slash(ReqPath)))

(***************************************************************************)
(* body.rs: trailers.                                                      *)
(***************************************************************************)
\* The data polls made so far ended the stream / yielded an error.
DataEnded == \E i \in 1..Len(sent.out) : sent.out[i] = ReadyNone
\* Trailers were polled for after n data polls.
TrailersAt(n) == \E t \in sent.trailers : t.at = n

\* C31: poll_trailers of a response Body and of a request StreamBody returns
\* Ok(None) whenever it is called: before any data was polled, between data
\* polls, after the end of the data and after an error.
C31_NoTrailers == \A t \in sent.trailers : t.item = TrailersNone

C31_Witness ==
    /\ sent.made.type = "StreamBody"
    /\ Len(sent.out) = 3
    /\ sent.out[2] = ReadyErr
    /\ sent.out[3] = ReadyNone
    /\ TrailersAt(0) /\ TrailersAt(1) /\ TrailersAt(2) /\ TrailersAt(3)

(***************************************************************************)
(* handle2: the order of the dispatcher's checks.                          *)
(***************************************************************************)
\* The first of the dispatcher's checks that req fails, in the order verb
\* recognised, verb allowed, path valid, body read within the cap, body
\* permitted for the verb; "handler" when it fails none.
FirstFailing ==
    IF ~ KnownVerb THEN "method"
    ELSE IF ~ Allowed THEN "allow"
    ELSE IF ~ PathParses THEN "path"
    ELSE IF ~ body_is_streamed(ReqVerb) /\ StopsAt(req.body) # 0 THEN "body"
    ELSE IF ~ body_accepted(ReqVerb) /\ PrefixLen(req.body, Len(req.body)) > 0 THEN "media"
    ELSE "handler"
\* The body of req goes over the cap before any of its items fails.
OverCap == StopsAt(req.body) # 0 /\ ~ req.body[StopsAt(req.body)].failed
\* The status of a request that fails the named check.
StatusOf(check) ==
    CASE check = "method" -> statuscode(ErrUnknownDavMethod)
      [] check = "allow" -> 405
      [] check = "path" -> statuscode(from_uri_and_prefix(req.uri, cfg.prefix).err)
      [] check = "body" -> IF OverCap THEN 413 ELSE statuscode(ErrIoError)
      [] check = "media" -> 415
      [] OTHER -> resp.status
\* The stream items the dispatcher takes from the body of a request that
\* fails the named check.
PolledOf(check) ==
    CASE check \in {"method", "allow", "path"} -> 0
      [] check = "body" -> StopsAt(req.body)
      [] check = "media" -> Len(req.body)
      [] OTHER -> run.polled

\* C32: the dispatcher checks, in this order, that the verb is recognised,
\* that it is allowed, that the path is valid, that the body is read within
\* the cap and that the verb takes a body, and stops at the first check that
\* fails: the status is that of the earliest failing check, the later checks
\* are not made (nothing more of the body is read), and no handler, no
\* file-system operation and no lock-system operation runs.
C32_FirstFailingCheckDecides ==
    Done =>
        /\ run.stage = FirstFailing
        /\ FirstFailing # "handler" =>
              /\ resp.status = StatusOf(FirstFailing)
              /\ run.polled = PolledOf(FirstFailing)
              /\ run.handler = 0
              /\ run.calls = <<>>
              /\ Unchanged

C32_Witness ==
    /\ Done
    /\ ReqVerb = MKCOL
    /\ Allowed /\ PathParses
    /\ OverCap
    /\ PrefixLen(req.body, Len(req.body)) > MAX_BODY
    /\ resp.status = 413
    /\ run.stage = "body"

(***************************************************************************)
(* handle_mkcol: the order of its steps.                                   *)
(***************************************************************************)
\* MKCOL reached its handler, which found a valid path.
AtMkcol == AtHandler({MKCOL}) /\ ~ run.panic
\* The lock system, if there is one, refuses a write at the target to the
\* tokens req submits.
LockRefuses ==
    /\ cfg.has_ls
    /\ ~ ls_check(run.pre_locks, ReqPath, cfg.principal, FALSE, FALSE, SubmittedTokens(req))
\* create_dir would fail: the target exists, or its parent does not.
CreateWouldFail == ~ create_dir(run.pre_fs, ReqPath).ok
\* The backend calls of a MKCOL that goes as far as the lock check.
UpToCheck ==
    IF cfg.has_ls THEN <<"metadata", "if_match", "check">> ELSE <<"metadata", "if_match">>

\* C33: handle_mkcol looks up the metadata, evaluates the If-* and If headers,
\* checks the lock with the tokens of the If header and calls create_dir, in
\* this order; a failed conditional is answered (412) with no lock check and
\* no create_dir; a failed lock check is answered 423 with no create_dir; so
\* 412 precedes 423 and 423 precedes 405 and 409; and a MKCOL that is not
\* answered 201 leaves the store as it was.
C33_MkcolOrder ==
    AtMkcol =>
        /\ IF ~ PreconditionsPass
           THEN /\ resp.status = 412
                /\ run.calls = <<"metadata", "if_match">>
           ELSE IF LockRefuses
           THEN /\ resp.status = 423
                /\ run.calls = <<"metadata", "if_match", "check">>
           ELSE /\ run.calls = Append(UpToCheck, "create_dir")
                /\ resp.status = 201 <=> ~ CreateWouldFail
        /\ resp.status # 201 => fs = run.pre_fs

C33_Witness ==
    /\ AtMkcol
    /\ ~ PreconditionsPass
    /\ LockRefuses
    /\ CreateWouldFail
    /\ resp.status = 412
    /\ run.calls = <<"metadata", "if_match">>

(***************************************************************************)
(* handle_mkcol.rs: the MKCOL handler of DavInner, and its equivalence     *)
(* with the one of DavHandler.  DavInner has the fields and the path() of  *)
(* DavHandler, with the principal as Option<String>.                       *)
(***************************************************************************)
\* self.principal.as_deref(): the same principal, or none.
as_deref(principal) == principal

\* A variant that passes no principal to the lock system.
inner_handle_mkcol_anonymous(c, f, ls, r) ==
    LET p == path(c, r)
        meta == metadata(f, p.path)
        res == if_match_get_tokens(r, meta, f, ls, c.has_ls, p.path)
        cd == create_dir(f, p.path)
    IN IF ~ p.ok THEN Panic(f, ls)
       ELSE IF ~ res.ok
       THEN Failure(ErrStatus(res.status), f, ls, <<"metadata", "if_match">>)
       ELSE IF c.has_ls /\ ~ ls_check(ls, p.path, NoPrincipal, FALSE, FALSE, SeqToSet(res.tokens))
       THEN Failure(ErrStatus(423), f, ls, <<"metadata", "if_match", "check">>)
       ELSE LET cs == (IF c.has_ls THEN <<"metadata", "if_match", "check">>
                       ELSE <<"metadata", "if_match">>) \o <<"create_dir">>
            IN IF ~ cd.ok /\ cd.fse = "Exists" THEN Failure(ErrStatus(405), f, ls, cs)
               ELSE IF ~ cd.ok /\ cd.fse = "NotFound" THEN Failure(ErrStatus(409), f, ls, cs)
               ELSE IF ~ cd.ok THEN Failure(ErrFsError(cd.fse), f, ls, cs)
               ELSE Outcome(NoErr, 201,
                            IF is_collection(p.path)
                            THEN {Header("content-location", with_prefix_url(add_slash(p.path)))}
                            ELSE {},
                            "empty", cd.fs, ls, cs)

\* DavInner::handle_mkcol
inner_handle_mkcol(c, f, ls, r) ==
    LET p == path(c, r)
        meta == metadata(f, p.path)
        res == if_match_get_tokens(r, meta, f, ls, c.has_ls, p.path)
        cd == create_dir(f, p.path)
    IN IF ~ p.ok THEN Panic(f, ls)
       ELSE IF ~ res.ok
       THEN Failure(ErrStatus(res.status), f, ls, <<"metadata", "if_match">>)
       ELSE IF c.has_ls
               /\ ~ ls_check(ls, p.path, as_deref(c.principal), FALSE, FALSE, SeqToSet(res.tokens))
       THEN Failure(ErrStatus(423), f, ls, <<"metadata", "if_match", "check">>)
       ELSE LET cs == (IF c.has_ls THEN <<"metadata", "if_match", "check">>
                       ELSE <<"metadata", "if_match">>) \o <<"create_dir">>
            IN IF ~ cd.ok /\ cd.fse = "Exists" THEN Failure(ErrStatus(405), f, ls, cs)
               ELSE IF ~ cd.ok /\ cd.fse = "NotFound" THEN Failure(ErrStatus(409), f, ls, cs)
               ELSE IF ~ cd.ok THEN Failure(ErrFsError(cd.fse), f, ls, cs)
               ELSE Outcome(NoErr, 201,
                            IF is_collection(p.path)
                            THEN {Header("content-location", with_prefix_url(add_slash(p.path)))}
                            ELSE {},
                            "empty", cd.fs, ls, cs)

\* The principals a handler is configured with: none, and one that holds no
\* lock of the model.
Principals == {NoPrincipal, "guest"}
\* The handler as req found it, configured with principal u.
ConfiguredFor(u) == [cfg EXCEPT !.principal = u]
\* What DavInner::handle_mkcol returns for req and the backends as req found
\* them.
InnerOutcome == inner_handle_mkcol(cfg, run.pre_fs, run.pre_locks, req)

\* C34: for the same request and the same state of the file system and the
\* lock system, DavHandler::handle_mkcol and DavInner::handle_mkcol make the
\* same backend calls in the same order and return the same error or status
\* and headers (and leave the same store), whatever the principal.
C34_MkcolVariantsAgree ==
    AtHandler({MKCOL}) =>
        /\ InnerOutcome.panic = run.panic
        /\ InnerOutcome.calls = run.calls
        /\ InnerOutcome.err = err
        /\ ~ run.panic /\ err = NoErr =>
              /\ InnerOutcome.status = resp.status
              /\ InnerOutcome.headers = resp.headers
        /\ InnerOutcome.fs = fs
        /\ InnerOutcome.locks = locks
        /\ \A u \in Principals :
              handle_mkcol(ConfiguredFor(u), run.pre_fs, run.pre_locks, req)
                  = inner_handle_mkcol(ConfiguredFor(u), run.pre_fs, run.pre_locks, req)

C34_Witness ==
    /\ AtHandler({MKCOL})
    /\ run.pre_locks # {}
    /\ resp.status = 201
    /\ InnerOutcome.status = 201
    /\ run.calls = <<"metadata", "if_match", "check", "create_dir">>
    /\ inner_handle_mkcol(ConfiguredFor("guest"), run.pre_fs, run.pre_locks, req).err
           = ErrStatus(423)

(***************************************************************************)
(* conditional.rs: the two combined evaluators.                            *)
(***************************************************************************)
\* What the two combined evaluators return for req and the backends as req
\* found them: the status of if_match (0 for None) and the result of
\* if_match_get_tokens.
IfMatchStatus == if_match(req, PreMeta, run.pre_fs, run.pre_locks, cfg.has_ls, ReqPath)
GetTokens == if_match_get_tokens(req, PreMeta, run.pre_fs, run.pre_locks, cfg.has_ls, ReqPath)

\* C35: if_match evaluates the If header first and returns 412 when it fails,
\* whatever http_if_match would return; if_match_get_tokens evaluates
\* http_if_match first and returns its status, whatever the If header; both
\* fail exactly when one of the two families fails; and their statuses differ
\* only when the If header fails and http_if_match returns 304.
C35_OppositeOrders ==
    Evaluated({GET, HEAD, MKCOL}) =>
        /\ ~ IfHeaderOk => IfMatchStatus = 412
        /\ HttpStatus # 0 => ~ GetTokens.ok /\ GetTokens.status = HttpStatus
        /\ IfMatchStatus # 0 <=> (~ IfHeaderOk \/ HttpStatus # 0)
        /\ ~ GetTokens.ok <=> (~ IfHeaderOk \/ HttpStatus # 0)
        /\ IfMatchStatus # GetTokens.status <=> (~ IfHeaderOk /\ HttpStatus = 304)
        /\ run.handler \in {GET, HEAD} /\ IfMatchStatus # 0 => resp.status = IfMatchStatus
        /\ run.handler = MKCOL /\ ~ GetTokens.ok => resp.status = GetTokens.status

C35_Witness ==
    /\ Evaluated({GET, HEAD})
    /\ ~ IfHeaderOk
    /\ HttpStatus = 304
    /\ IfMatchStatus = 412
    /\ GetTokens.status = 304
    /\ resp.status = 412

(***************************************************************************)
(* conditional.rs: which of the four If-* headers http_if_match evaluates. *)
(***************************************************************************)
\* The request of the call with another value (or none) for one date header.
WithUnmodifiedSince(d) == [req EXCEPT !.if_unmodified_since = d]
WithModifiedSince(d) == [req EXCEPT !.if_modified_since = d]
\* What If-None-Match, or without it If-Modified-Since, yields on its own.
SecondHalfAlone ==
    http_if_match([req EXCEPT !.if_match = NoTagList, !.if_unmodified_since = NoDate],
                  eval.meta)

\* C36: http_if_match evaluates If-Unmodified-Since only when If-Match is
\* absent (with If-Match present the result is the same for every value of
\* If-Unmodified-Since) and If-Modified-Since only when If-None-Match is
\* absent; and a failing If-Match, or without If-Match a failing
\* If-Unmodified-Since, yields 412 even when If-None-Match or
\* If-Modified-Since alone would yield 304.
C36_HeaderPrecedence ==
    AtHttpIfMatch =>
        /\ req.if_match.present =>
              \A d \in Dates : http_if_match(WithUnmodifiedSince(d), eval.meta) = eval.status
        /\ req.if_none_match.present =>
              \A d \in Dates : http_if_match(WithModifiedSince(d), eval.meta) = eval.status
        /\ FirstHalfFails => eval.status = 412

C36_Witness ==
    /\ AtHttpIfMatch
    /\ req.method = "GET"
    /\ req.if_match.present
    /\ ~ TagsMatch(req.if_match)
    /\ req.if_unmodified_since.present
    /\ ~ Later(eval.meta.modified, req.if_unmodified_since.time)
    /\ req.if_none_match.present
    /\ req.if_modified_since.present
    /\ Later(eval.meta.modified, req.if_modified_since.time)
    /\ SecondHalfAlone = 304
    /\ eval.status = 412

(***************************************************************************)
(* fs/localfs.rs: what a failed rename leaves at the destination.          *)
(***************************************************************************)
\* C37: whenever LocalFs rename returns an error, the destination is as it
\* was before the call.
C37_FailedRenameKeepsTarget ==
    (LastOp("rename") /\ ~ disk.result.ok) =>
        KindOf(disk.tree, disk.op.to) = KindOf(disk.before, disk.op.to)

(***************************************************************************)
(* davhandler/mod.rs: the prefix handle_with and handle_stream_with        *)
(* dispatch with.                                                          *)
(***************************************************************************)
\* C38: two calls on the same handler that were given the same prefix
\* argument, one through handle_with and one through handle_stream_with,
\* are dispatched with the same prefix.
C38_SameEffectivePrefix ==
    \A p, q \in 1..MaxCalls :
        (/\ inflight[p].pc = "done"
         /\ inflight[q].pc = "done"
         /\ inflight[p].prefix = inflight[q].prefix)
        => inflight[p].used.prefix = inflight[q].used.prefix

(***************************************************************************)
(* fs/localfs.rs, impl DavFile for LocalFsFile: read_bytes and seek on an  *)
(* open file.  Only lengths are kept: the file has `len` bytes and the     *)
(* cursor is at `pos`; a buffer has `len` bytes written and room for `cap`.*)
(* BytesMut and read_buf are those of the bytes and tokio crates:          *)
(* BytesMut as a BufMut has usize::MAX - len bytes remaining, and its      *)
(* chunk_mut reserves more room when the buffer is full (64 bytes; Reserve *)
(* in the model, scaled to its file lengths); read_buf returns 0 when the  *)
(* buffer has nothing remaining or the reader is at the end of the file,   *)
(* and otherwise reads once into the chunk.                                *)
(***************************************************************************)
MaxFileLen == 5
MaxCount == 3
MaxSlice == 2
Reserve == 2

Min(a, b) == IF a < b THEN a ELSE b

\* BytesMut::with_capacity(count)
with_capacity(count) == [len |-> 0, cap |-> count]

\* BufMut::has_remaining_mut for BytesMut: usize::MAX - len > 0.
has_remaining_mut(buf) == TRUE

\* BufMut::chunk_mut for BytesMut: the spare room, after reserving more if
\* there is none.
chunk_mut(buf) == IF buf.cap = buf.len THEN [buf EXCEPT !.cap = @ + Reserve] ELSE buf

\* self.0.read_buf(&mut buf): one read of at most `slice` bytes (what the
\* system returns at once) into the chunk; n is the number of bytes read.
read_buf(f, buf, slice) ==
    IF ~ has_remaining_mut(buf) THEN [n |-> 0, f |-> f, buf |-> buf]
    ELSE LET dst == chunk_mut(buf)
             left == IF f.pos < f.len THEN f.len - f.pos ELSE 0
             n == Min(Min(dst.cap - dst.len, left), slice)
         IN [n |-> n, f |-> [f EXCEPT !.pos = @ + n], buf |-> [dst EXCEPT !.len = @ + n]]

\* while self.0.read_buf(&mut buf).await? > 0 {}
RECURSIVE read_buf_loop(_, _, _, _)
read_buf_loop(f, buf, slice, reads) ==
    LET r == read_buf(f, buf, slice)
    IN IF r.n > 0 THEN read_buf_loop(r.f, r.buf, slice, reads + 1)
       ELSE [f |-> r.f, buf |-> r.buf, reads |-> reads + 1]

\* LocalFsFile::read_bytes(count): the bytes of buf.freeze().
read_bytes(f, count, slice) == read_buf_loop(f, with_capacity(count), slice, 0)

\* LocalFsFile::seek(SeekFrom::Start(pos))
seek(f, pos) == [f EXCEPT !.pos = pos]

NoRead == [fn |-> "", count |-> 0, from |-> 0, bytes |-> 0, cap |-> 0, reads |-> 0]

InitFile ==
    /\ cfg = [prefix |-> Root, allow |-> {}, has_ls |-> FALSE, principal |-> NoPrincipal]
    /\ fs = EmptyFs
    /\ locks = {}
    /\ phase = "idle"
    /\ req = NoReq
    /\ resp = NoResp
    /\ err = NoErr
    /\ run = NoRun
    /\ created = {}
    /\ eval = NoEval
    /\ inflight = <<>>
    /\ sent = <<>>
    /\ readdir = <<>>
    /\ disk = <<>>
    /\ \E n \in 0..MaxFileLen : file = [f |-> [len |-> n, pos |-> 0], last |-> NoRead]

\* read_bytes(count) is called and returns Ok(bytes).
ReadBytes ==
    /\ \E count \in 0..MaxCount, slice \in 1..MaxSlice :
          LET r == read_bytes(file.f, count, slice)
          IN file' = [f |-> r.f,
                      last |-> [fn |-> "read_bytes", count |-> count, from |-> file.f.pos,
                                bytes |-> r.buf.len, cap |-> r.buf.cap, reads |-> r.reads]]
    /\ UNCHANGED <<core, inflight, sent, readdir, disk>>

\* seek(SeekFrom::Start(pos)) is called.
Seek ==
    /\ \E pos \in 0..MaxFileLen :
          file' = [f |-> seek(file.f, pos), last |-> [NoRead EXCEPT !.fn = "seek"]]
    /\ UNCHANGED <<core, inflight, sent, readdir, disk>>

NextFile == ReadBytes \/ Seek

SpecFile == InitFile /\ [][NextFile]_vars

\* The last call was read_bytes; the cursor is at or past the end of the file.
AtReadBytes == file.last.fn = "read_bytes"
AtEof == file.f.pos >= file.f.len

\* C39: read_bytes(count) returns at most count bytes, and fewer than count
\* only when the end of the file was reached.
C39_ReadBytesAtMostCount ==
    AtReadBytes =>
        /\ file.last.bytes <= file.last.count
        /\ file.last.bytes < file.last.count => AtEof

(***************************************************************************)
(* util.rs: systemtime_to_offsetdatetime and systemtime_to_rfc3339.        *)
(* A SystemTime is kept as the day it falls on, counted from 1970-01-01    *)
(* (negative before it), the second of that day and the nanosecond of that *)
(* second, so that the last second of the year 9999 and the one after it   *)
(* stay within the checker's integers.                                     *)
(***************************************************************************)
SecsPerDay == 86400
\* The last day from_unix_timestamp accepts: 9999-12-31.
MaxDay == 2932896

SystemTime(days, sod, nanos) == [days |-> days, sod |-> sod, nanos |-> nanos]
UNIX_EPOCH == SystemTime(0, 0, 0)

\* t.duration_since(UNIX_EPOCH): Err when t is earlier than the epoch.
duration_since_epoch(t) ==
    IF t.days < 0 THEN [ok |-> FALSE, days |-> 0, sod |-> 0, nanos |-> 0]
    ELSE [ok |-> TRUE, days |-> t.days, sod |-> t.sod, nanos |-> t.nanos]

\* Duration::as_secs: the whole seconds.
as_secs(d) == [days |-> d.days, sod |-> d.sod]

\* The calendar date of a day number (proleptic Gregorian calendar).
civil_from_days(days) ==
    LET z == days + 719468
        era == z \div 146097
        doe == z - era * 146097
        yoe == (doe - doe \div 1460 + doe \div 36524 - doe \div 146096) \div 365
        doy == doe - (365 * yoe + yoe \div 4 - yoe \div 100)
        mp == (5 * doy + 2) \div 153
        d == doy - (153 * mp + 2) \div 5 + 1
        m == IF mp < 10 THEN mp + 3 ELSE mp - 9
    IN [year |-> yoe + era * 400 + (IF m <= 2 THEN 1 ELSE 0), month |-> m, day |-> d]

\* OffsetDateTime::from_unix_timestamp(secs): an error outside the range of
\* dates; otherwise the date and time at offset UTC, with no sub-second part.
from_unix_timestamp(s) ==
    IF s.days > MaxDay THEN [ok |-> FALSE]
    ELSE [ok |-> TRUE,
          date |-> civil_from_days(s.days),
          hour |-> s.sod \div 3600,
          minute |-> (s.sod % 3600) \div 60,
          second |-> s.sod % 60,
          nanosecond |-> 0,
          offset |-> "UTC"]

\* systemtime_to_offsetdatetime(t); panic: the unwrap of an error.
systemtime_to_offsetdatetime(t) ==
    LET d == duration_since_epoch(t)
    IN IF d.ok
       THEN LET tm == from_unix_timestamp(as_secs(d))
            IN [panic |-> ~ tm.ok, tm |-> tm]
       ELSE [panic |-> FALSE, tm |-> from_unix_timestamp(as_secs(UNIX_EPOCH))]

\* Decimal digits.
Digit(n) == <<"0", "1", "2", "3", "4", "5", "6", "7", "8", "9">>[n + 1]
Pad2(n) == Digit(n \div 10) \o Digit(n % 10)
Pad4(n) == Pad2(n \div 100) \o Pad2(n % 100)
\* The digits of a sub-second part, without trailing zeros.
RECURSIVE Fraction(_, _)
Fraction(nanos, width) ==
    IF nanos % 10 = 0 /\ width > 1 THEN Fraction(nanos \div 10, width - 1)
    ELSE IF width = 1 THEN Digit(nanos)
    ELSE Fraction(nanos \div 10, width - 1) \o Digit(nanos % 10)

\* tm.format(&Rfc3339): date "T" time, the sub-second part if there is one,
\* and "Z" for the offset UTC.
format_rfc3339(tm) ==
    Pad4(tm.date.year) \o "-" \o Pad2(tm.date.month) \o "-" \o Pad2(tm.date.day)
    \o "T" \o Pad2(tm.hour) \o ":" \o Pad2(tm.minute) \o ":" \o Pad2(tm.second)
    \o (IF tm.nanosecond # 0 THEN "." \o Fraction(tm.nanosecond, 9) ELSE "")
    \o (IF tm.offset = "UTC" THEN "Z" ELSE "+??:??")

\* systemtime_to_rfc3339(t)
systemtime_to_rfc3339(t) ==
    LET r == systemtime_to_offsetdatetime(t)
    IN IF r.panic THEN [panic |-> TRUE, tm |-> r.tm, text |-> ""]
       ELSE [panic |-> FALSE, tm |-> r.tm, text |-> format_rfc3339(r.tm)]

\* The times of the model: around the epoch, the ends of months and years,
\* leap days, the last second from_unix_timestamp accepts and the day after.
TimeDays == {0 - 366, 0 - 1, 0, 1, 58, 59, 364, 365, 789, 790, 9849, 11016, 11017, MaxDay, MaxDay + 1}
TimeSecs == {0, 1, 59, 60, 3599, 3600, 59997, SecsPerDay - 1}
TimeNanos == {0, 1, HalfSec, NanosPerSec - 1}
SystemTimes == {SystemTime(d, s, n) : d \in TimeDays, s \in TimeSecs, n \in TimeNanos}

InitTime ==
    /\ cfg = [prefix |-> Root, allow |-> {}, has_ls |-> FALSE, principal |-> NoPrincipal]
    /\ fs = EmptyFs
    /\ locks = {}
    /\ phase = "idle"
    /\ req = NoReq
    /\ resp = NoResp
    /\ err = NoErr
    /\ run = NoRun
    /\ created = {}
    /\ eval = NoEval
    /\ AuxAtRest

\* systemtime_to_rfc3339(t) is called and returns a String, or panics.
ToRfc3339 ==
    /\ phase = "idle"
    /\ \E t \in SystemTimes :
          /\ phase' = "done"
          /\ eval' = [fn |-> "systemtime_to_rfc3339", time |-> t,
                      out |-> systemtime_to_rfc3339(t)]
    /\ UNCHANGED <<cfg, fs, locks, req, resp, err, run, created, aux>>

NextTime == ToRfc3339 \/ Return

SpecTime == InitTime /\ [][NextTime]_vars

\* systemtime_to_rfc3339 has returned or panicked.
AtRfc3339 == Done /\ eval.fn = "systemtime_to_rfc3339"
BeforeEpoch == eval.time.days < 0
\* The calendar, stated on its own: leap years, the days of the years from
\* 1970 to y - 1, and the days of the months before m in year y.
IsLeap(y) == y % 4 = 0 /\ (y % 100 # 0 \/ y % 400 = 0)
LeapsUpTo(y) == y \div 4 - y \div 100 + y \div 400
DaysBeforeYear(y) == 365 * (y - 1970) + LeapsUpTo(y - 1) - LeapsUpTo(1969)
DaysBeforeMonth(y, m) ==
    <<0, 31, 59, 90, 120, 151, 181, 212, 243, 273, 304, 334>>[m]
    + (IF m > 2 /\ IsLeap(y) THEN 1 ELSE 0)
\* The instant a formatted timestamp names, as a day and a second of it.
DayOf(tm) == DaysBeforeYear(tm.date.year) + DaysBeforeMonth(tm.date.year, tm.date.month)
             + tm.date.day - 1
SecondOf(tm) == tm.hour * 3600 + tm.minute * 60 + tm.second
\* The whole second the result has to name: that of the time, or the epoch
\* for a time before the epoch.
Expected == IF BeforeEpoch THEN [days |-> 0, sod |-> 0]
            ELSE [days |-> eval.time.days, sod |-> eval.time.sod]

\* What holds of every call that returns: the text has the 20 characters of
\* YYYY-MM-DDTHH:MM:SSZ and names the whole second of the time (the epoch
\* for a time before it), whatever the sub-second part.
WholeSecondsInUtc ==
    /\ Len(eval.out.text) = 20
    /\ eval.out.tm.offset = "UTC"
    /\ eval.out.tm.nanosecond = 0
    /\ eval.out.tm.date.month \in 1..12
    /\ eval.out.tm.date.day \in 1..31
    /\ eval.out.tm.hour \in 0..23
    /\ eval.out.tm.minute \in 0..59
    /\ eval.out.tm.second \in 0..59
    /\ DayOf(eval.out.tm) = Expected.days
    /\ SecondOf(eval.out.tm) = Expected.sod
    /\ eval.out.text = systemtime_to_rfc3339([eval.time EXCEPT !.nanos = 0]).text
    /\ eval.time = UNIX_EPOCH => eval.out.text = "1970-01-01T00:00:00Z"
    /\ BeforeEpoch => eval.out.text = "1970-01-01T00:00:00Z"
    /\ eval.time = SystemTime(9849, 59997, HalfSec) => eval.out.text = "1996-12-19T16:39:57Z"
    /\ eval.time = SystemTime(MaxDay, SecsPerDay - 1, NanosPerSec - 1)
          => eval.out.text = "9999-12-31T23:59:59Z"

\* The function formats every time up to 9999-12-31T23:59:59Z in this way,
\* and panics exactly for the later ones.
FormatsUpToMaxDay ==
    AtRfc3339 =>
        /\ eval.out.panic <=> eval.time.days > MaxDay
        /\ ~ eval.out.panic => WholeSecondsInUtc

\* A time half a second before the epoch was formatted as the epoch.
EarlierFormattedAsEpoch ==
    /\ AtRfc3339
    /\ eval.time = SystemTime(0 - 1, SecsPerDay - 1, HalfSec)
    /\ ~ eval.out.panic
    /\ eval.out.text = "1970-01-01T00:00:00Z"

\* C40: systemtime_to_rfc3339 formats a time as an RFC 3339 timestamp in UTC
\* with whole seconds: the epoch gives "1970-01-01T00:00:00Z", the
\* sub-second part of any time is dropped, and any time before the epoch is
\* formatted as the epoch.
C40_FormatsAnyTime ==
    AtRfc3339 => (~ eval.out.panic /\ WholeSecondsInUtc)

====
